---- MODULE Spec2Model ----
(***************************************************************************)
(* The ML-analysis job pipeline of backend/routers/ml_analyses.py: the     *)
(* analysis records, their status lifecycle, and the signed callback       *)
(* endpoints.  Requests are handled one at a time: a client puts one        *)
(* request on the wire (Send) and one action runs its whole handler.       *)
(*                                                                         *)
(* Optional[T] values are sequences of length at most one: <<>> is None,   *)
(* <<v>> is the value v.  Python truthiness of an Optional[str] is         *)
(* Truthy(x): neither None nor the empty string.                           *)
(***************************************************************************)
EXTENDS Integers, Sequences, FiniteSets, TLC

VARIABLES
    settings,     \* core.config.settings: the ML_* switches the handlers read
    analyses,     \* ml_analyses table: analysis id -> record
    annotations,  \* ml_annotations table: analysis id -> sequence of stored items
    now,          \* the server clock, datetime.now(timezone.utc)
    inflight,     \* the request on its way to the server: None, or Some(request)
    last,         \* the response to the request handled last
    log           \* the ML_ANALYSIS_STATUS records in the application log, oldest first,
                  \* written since the request on the wire was sent

vars == <<settings, analyses, annotations, now, inflight, last, log>>

----------------------------------------------------------------------------
(* Bounds of the model *)

\* the clock runs from 1 to MaxTime
MaxTime == 2
\* no analysis stores more than this many annotations
MaxAnnotations == 1

(* Configuration values (core.config.Settings, ML_* fields) *)

ML_MAX_ANALYSES_PER_IMAGE == 1
ML_MAX_BULK_ANNOTATIONS == 1
ML_DEFAULT_STATUS == "queued"
\* the result of ML_ALLOWED_MODELS.split(','), segment by segment
ML_ALLOWED_MODELS == <<"resnet50_classifier", " yolo_v8", "">>
\* replay window of the signature timestamp, in clock units
ReplayWindowSeconds == 1
\* the shared secret when one is configured
ConfiguredSecret == "s3cr3t"

(* The universe of the model *)

\* ids the store can hand out (uuid4 values)
AnalysisIds == {"a1"}
\* an id no analysis ever has
GhostId == "a9"
\* images in the store, each in the project of group "data-scientists"
Images == {"img1"}
\* an image id that is not in the store
GhostImage == "img9"
\* callers: a member of the project group and a stranger
Users == {"alice@example.com", "eve@example.com"}
GroupMembers == {"alice@example.com"}

None == <<>>
Some(v) == <<v>>
Truthy(opt) == opt # <<>> /\ opt[1] # ""

TerminalStatuses == {"completed", "failed", "canceled"}
Statuses == {"queued", "processing"} \cup TerminalStatuses

\* status strings a client may send
StatusInputs == Statuses \cup {"COMPLETED", "bogus"}
MessageInputs == {None, Some("boom")}

----------------------------------------------------------------------------
(* Pure helpers *)

\* str.lower() on the status strings a client may send
Lower(s) ==
    CASE s = "COMPLETED" -> "completed"
      [] s = "PROCESSING" -> "processing"
      [] s = "Failed" -> "failed"
      [] s = "Canceled" -> "canceled"
      [] OTHER -> s

\* str.strip() on the segments of the allow-list
Strip(s) ==
    CASE s = " yolo_v8" -> "yolo_v8"
      [] s = " " -> ""
      [] OTHER -> s

Digits == <<"0", "1", "2", "3", "4", "5", "6", "7", "8", "9">>

\* str(int): decimal text of a natural number
RECURSIVE Str(_)
Str(n) == IF n < 10 THEN Digits[n + 1] ELSE Str(n \div 10) \o Digits[(n % 10) + 1]

\* the largest timestamp a request header may carry
MaxTs == MaxTime + ReplayWindowSeconds + 1

\* int(ts): the number a decimal text stands for, None when it is not a number
ParseInt(text) ==
    IF \E n \in 0..MaxTs : Str(n) = text
    THEN Some(CHOOSE n \in 0..MaxTs : Str(n) = text)
    ELSE None

Abs(x) == IF x < 0 THEN -x ELSE x

\* hmac.new(secret, msg, sha256).hexdigest(), kept symbolic: equal digests have
\* equal keys and equal messages
HmacHex(secret, msg) == "hmac[" \o secret \o "](" \o msg \o ")"

\* the X-ML-Signature value a holder of `secret` computes for (ts, body)
Sign(secret, ts, body_bytes) == "sha256=" \o HmacHex(secret, ts \o "." \o body_bytes)

\* utils.dependencies.verify_hmac_signature_flexible, at server time t
verify_hmac_signature_flexible(secret, body_bytes, ts, sig, t) ==
    /\ ParseInt(ts) # None
    /\ Abs(t - ParseInt(ts)[1]) <= ReplayWindowSeconds
    /\ sig = Sign(secret, ts, body_bytes)

\* the text of an optional string in a request body
OptText(opt) == IF opt = None THEN "null" ELSE "'" \o opt[1] \o "'"

RECURSIVE Join(_)
Join(items) ==
    IF items = <<>> THEN ""
    ELSE IF Len(items) = 1 THEN items[1] \o ";"
    ELSE Join(SubSeq(items, 1, Len(items) \div 2))
             \o Join(SubSeq(items, (Len(items) \div 2) + 1, Len(items)))

\* request bodies as the bytes on the wire; `pad` is the whitespace the sender's
\* serializer puts after separators
EncodeFinalize(req, pad) ==
    "{status:" \o pad \o OptText(req.status) \o "," \o pad
        \o "error_message:" \o pad \o OptText(req.error_message) \o "}"

EncodeBulk(payload, pad) ==
    "{annotations:" \o pad \o "[" \o Join(payload.annotations) \o "]," \o pad
        \o "mode:" \o pad \o payload.mode \o "}"

EncodePresign(req, pad) ==
    "{artifact_type:" \o pad \o req.artifact_type \o "," \o pad
        \o "filename:" \o pad \o OptText(req.filename) \o "}"

\* a transition table that lets a finished analysis be picked up again
VALID_STATUS_TRANSITIONS_Reopen(old_status) ==
    CASE old_status = "queued" -> {"processing", "canceled"}
      [] old_status = "processing" -> {"completed", "failed", "canceled"}
      [] old_status = "failed" -> {"queued"}
      [] OTHER -> {}

\* a transition table that also lets a queued analysis complete directly
VALID_STATUS_TRANSITIONS_Skip(old_status) ==
    CASE old_status = "queued" -> {"processing", "canceled", "completed"}
      [] old_status = "processing" -> {"completed", "failed", "canceled"}
      [] OTHER -> {}

\* VALID_STATUS_TRANSITIONS.get(old_status, set())
VALID_STATUS_TRANSITIONS(old_status) ==
    CASE old_status = "queued" -> {"processing", "canceled"}
      [] old_status = "processing" -> {"completed", "failed", "canceled"}
      [] OTHER -> {}

\* is_user_in_group(email, group) for the one project group of the model
is_user_in_group(user_email) == user_email \in GroupMembers

\* an access check that does not look at the caller's groups
get_image_or_403_NoGroup(image_id, current_user) ==
    IF image_id \notin Images THEN 404
    ELSE 0

\* get_image_or_403: 0 when the caller may use the image, else the error code
get_image_or_403(image_id, current_user) ==
    IF image_id \notin Images THEN 404
    ELSE IF ~is_user_in_group(current_user) THEN 403
    ELSE 0

----------------------------------------------------------------------------
(* The store (utils.crud) *)

\* crud.get_ml_analysis: the record, or None
get_ml_analysis_row(analysis_id) ==
    IF analysis_id \in DOMAIN analyses THEN Some(analyses[analysis_id]) ELSE None

\* crud.list_ml_analyses_for_image: ids of the image's analyses
list_ml_analyses_for_image(image_id) ==
    {id \in DOMAIN analyses : analyses[id].image_id = image_id}

\* crud.create_ml_analysis: the row a new analysis starts as
NewAnalysis(image_id, status) ==
    [image_id |-> image_id, status |-> status, started_at |-> None,
     completed_at |-> None, error_message |-> None]

\* the ids uuid4() hands out, in the order it hands them out
Uuids == <<"a1", "a2", "a3">>

\* uuid4(): an id not handed out before
FreshId == Uuids[Cardinality(DOMAIN analyses) + 1]

Put(f, k, v) == [x \in DOMAIN f \cup {k} |-> IF x = k THEN v ELSE f[x]]

----------------------------------------------------------------------------
(* What a handled request leaves in `last` *)

\* op, id: the endpoint and the id in its path; code: the response code;
\* em: the request carried an error message; old: the status the analysis had
\* when the request was handled ("" without an analysis)
Reply(op, id, code, em, old) ==
    [op |-> op, id |-> id, code |-> code, em |-> em, old |-> old]

NoReply == Reply("none", "", 0, FALSE, "")

\* the status an analysis has, "" when there is no such analysis
StatusOf(analysis_id) ==
    IF analysis_id \in DOMAIN analyses THEN analyses[analysis_id].status ELSE ""

----------------------------------------------------------------------------
(* The handlers *)

\* a create whose limit test lets one analysis too many through
create_ml_analysis_OffByOne(image_id, body_image_id, model_name, current_user) ==
    LET allowed == {Strip(ML_ALLOWED_MODELS[i]) : i \in DOMAIN ML_ALLOWED_MODELS} \ {""}
    IN  IF ~settings.ML_ANALYSIS_ENABLED THEN 404
        ELSE IF image_id # body_image_id THEN 400
        ELSE IF get_image_or_403(image_id, current_user) # 0
             THEN get_image_or_403(image_id, current_user)
        ELSE IF Cardinality(list_ml_analyses_for_image(image_id))
                    > settings.ML_MAX_ANALYSES_PER_IMAGE THEN 400
        ELSE IF model_name \notin allowed THEN 400
        ELSE 201

\* a create that does not compare the image id of the path with that of the body
create_ml_analysis_NoMismatch(image_id, body_image_id, model_name, current_user) ==
    LET allowed == {Strip(ML_ALLOWED_MODELS[i]) : i \in DOMAIN ML_ALLOWED_MODELS} \ {""}
    IN  IF ~settings.ML_ANALYSIS_ENABLED THEN 404
        ELSE IF get_image_or_403(image_id, current_user) # 0
             THEN get_image_or_403(image_id, current_user)
        ELSE IF Cardinality(list_ml_analyses_for_image(image_id))
                    >= settings.ML_MAX_ANALYSES_PER_IMAGE THEN 400
        ELSE IF model_name \notin allowed THEN 400
        ELSE 201

\* POST /images/{image_id}/analyses: the response code
create_ml_analysis(image_id, body_image_id, model_name, current_user) ==
    LET allowed == {Strip(ML_ALLOWED_MODELS[i]) : i \in DOMAIN ML_ALLOWED_MODELS} \ {""}
    IN  IF ~settings.ML_ANALYSIS_ENABLED THEN 404
        ELSE IF image_id # body_image_id THEN 400
        ELSE IF get_image_or_403(image_id, current_user) # 0
             THEN get_image_or_403(image_id, current_user)
        ELSE IF Cardinality(list_ml_analyses_for_image(image_id))
                    >= settings.ML_MAX_ANALYSES_PER_IMAGE THEN 400
        ELSE IF model_name \notin allowed THEN 400
        ELSE 201

\* a preamble that looks at the feature flag last
Preamble_FlagLast(analysis_id, current_user) ==
    IF get_ml_analysis_row(analysis_id) = None THEN 404
    ELSE IF get_image_or_403(analyses[analysis_id].image_id, current_user) # 0
    THEN get_image_or_403(analyses[analysis_id].image_id, current_user)
    ELSE IF ~settings.ML_ANALYSIS_ENABLED THEN 404
    ELSE 0

\* the checks every handler of one analysis starts with: feature flag, the
\* analysis exists, the caller may use its image.  0 when all pass.
Preamble(analysis_id, current_user) ==
    IF ~settings.ML_ANALYSIS_ENABLED THEN 404
    ELSE IF get_ml_analysis_row(analysis_id) = None THEN 404
    ELSE get_image_or_403(analyses[analysis_id].image_id, current_user)

\* what a handler hands back: the response code and, when it commits, the row
Result(code, row) == [code |-> code, row |-> row]

\* GET /analyses/{analysis_id}: the response code
get_ml_analysis(analysis_id, current_user) ==
    IF Preamble(analysis_id, current_user) # 0
    THEN Preamble(analysis_id, current_user)
    ELSE 200

\* Query(200, le=1000): the limit of a list-annotations call that names none,
\* and the largest limit a call may name
ListDefaultLimit == 200
ListMaxLimit == 1000

\* crud.list_ml_annotations: the stored annotations from offset skip, at most limit
list_ml_annotations(analysis_id, skip, limit) ==
    SubSeq(annotations[analysis_id], skip + 1,
           IF skip + limit < Len(annotations[analysis_id])
           THEN skip + limit ELSE Len(annotations[analysis_id]))

\* a listing that ignores the limit parameter
list_analysis_annotations_NoLimit(analysis_id, skip, limit, current_user) ==
    IF limit # None /\ limit[1] > ListMaxLimit THEN Result(422, None)
    ELSE IF Preamble(analysis_id, current_user) # 0
    THEN Result(Preamble(analysis_id, current_user), None)
    ELSE Result(200, Some(list_ml_annotations(analysis_id, skip,
                                              Len(annotations[analysis_id]))))

\* GET /analyses/{analysis_id}/annotations: the response code and the items
list_analysis_annotations(analysis_id, skip, limit, current_user) ==
    LET lim == IF limit = None THEN ListDefaultLimit ELSE limit[1]
    IN  IF lim > ListMaxLimit THEN Result(422, None)
        ELSE IF Preamble(analysis_id, current_user) # 0
        THEN Result(Preamble(analysis_id, current_user), None)
        ELSE Result(200, Some(list_ml_annotations(analysis_id, skip, lim)))

\* GET /images/{image_id}/analyses: the response code
list_ml_analyses(image_id, current_user) ==
    IF ~settings.ML_ANALYSIS_ENABLED THEN 404
    ELSE IF get_image_or_403(image_id, current_user) # 0
         THEN get_image_or_403(image_id, current_user)
    ELSE 200

\* logger.info("ML_ANALYSIS_STATUS", extra={...}): the record it writes
AuditRecord(analysis_id, from, to, user) ==
    [analysis_id |-> analysis_id, from |-> from, to |-> to, user |-> user]

\* a handler that writes the record for every request it answers with success
StatusAudit_OnEveryAnswer(analysis_id, db_status, r, current_user) ==
    IF r.code # 200 THEN <<>>
    ELSE <<AuditRecord(analysis_id, Lower(db_status),
                       IF r.row = None THEN Lower(db_status) ELSE r.row[1].status,
                       current_user)>>

\* the records a status change on an analysis of status `db_status` writes, r
\* being what the handler decided: the logger.info call stands after db.commit()
\* on the two paths that assign, and on no path that returns or raises before
StatusAudit(analysis_id, db_status, r, current_user) ==
    IF r.row = None THEN <<>>
    ELSE <<AuditRecord(analysis_id, Lower(db_status), r.row[1].status, current_user)>>

\* a status update without the echo check
IsNoOp_Never(old_status, new_status) == FALSE

\* `if old_status == new_status`: the request only echoes the stored status
IsNoOp(old_status, new_status) == old_status = new_status

\* a status update that stamps started_at on every transition it accepts
update_ml_analysis_status_Restart(analysis_id, payload, current_user) ==
    LET db_obj == analyses[analysis_id]
        new_status == Lower(payload.status)
        old_status == Lower(db_obj.status)
        allowed == VALID_STATUS_TRANSITIONS(old_status)
        completed_at ==
            IF new_status \in {"completed", "failed", "canceled"}
            THEN Some(now) ELSE db_obj.completed_at
        error_message ==
            IF Truthy(payload.error_message)
            THEN payload.error_message ELSE db_obj.error_message
    IN  IF Preamble(analysis_id, current_user) # 0
        THEN Result(Preamble(analysis_id, current_user), None)
        ELSE IF IsNoOp(old_status, new_status)
        THEN Result(get_ml_analysis(analysis_id, current_user), None)
        ELSE IF new_status \notin allowed
        THEN Result(409, None)
        ELSE Result(get_ml_analysis(analysis_id, current_user),
                    Some([db_obj EXCEPT !.started_at = Some(now),
                                        !.completed_at = completed_at,
                                        !.status = new_status,
                                        !.error_message = error_message]))

\* a status update that compares the lower-cased status and stores the status
\* as the request spells it
update_ml_analysis_status_StoresRaw(analysis_id, payload, current_user) ==
    LET db_obj == analyses[analysis_id]
        new_status == Lower(payload.status)
        old_status == Lower(db_obj.status)
        allowed == VALID_STATUS_TRANSITIONS(old_status)
        started_at ==
            IF new_status = "processing" /\ db_obj.started_at = None
            THEN Some(now) ELSE db_obj.started_at
        completed_at ==
            IF new_status \in {"completed", "failed", "canceled"}
            THEN Some(now) ELSE db_obj.completed_at
        error_message ==
            IF Truthy(payload.error_message)
            THEN payload.error_message ELSE db_obj.error_message
    IN  IF Preamble(analysis_id, current_user) # 0
        THEN Result(Preamble(analysis_id, current_user), None)
        ELSE IF IsNoOp(old_status, new_status)
        THEN Result(get_ml_analysis(analysis_id, current_user), None)
        ELSE IF new_status \notin allowed
        THEN Result(409, None)
        ELSE Result(get_ml_analysis(analysis_id, current_user),
                    Some([db_obj EXCEPT !.started_at = started_at,
                                        !.completed_at = completed_at,
                                        !.status = payload.status,
                                        !.error_message = error_message]))

\* PATCH /analyses/{analysis_id}/status
update_ml_analysis_status(analysis_id, payload, current_user) ==
    LET db_obj == analyses[analysis_id]
        new_status == Lower(payload.status)
        old_status == Lower(db_obj.status)
        allowed == VALID_STATUS_TRANSITIONS(old_status)
        started_at ==
            IF new_status = "processing" /\ db_obj.started_at = None
            THEN Some(now) ELSE db_obj.started_at
        completed_at ==
            IF new_status \in {"completed", "failed", "canceled"}
            THEN Some(now) ELSE db_obj.completed_at
        error_message ==
            IF Truthy(payload.error_message)
            THEN payload.error_message ELSE db_obj.error_message
    IN  IF Preamble(analysis_id, current_user) # 0
        THEN Result(Preamble(analysis_id, current_user), None)
        ELSE IF IsNoOp(old_status, new_status)
        THEN Result(get_ml_analysis(analysis_id, current_user), None)
        ELSE IF new_status \notin allowed
        THEN Result(409, None)
        ELSE Result(get_ml_analysis(analysis_id, current_user),
                    Some([db_obj EXCEPT !.started_at = started_at,
                                        !.completed_at = completed_at,
                                        !.status = new_status,
                                        !.error_message = error_message]))

\* a verifier that lets a request without a signature header through
verify_pipeline_hmac_SkipAbsent(headers, body_bytes) ==
    LET secret == settings.ML_CALLBACK_HMAC_SECRET
        ts == IF headers.ts = None THEN "0" ELSE headers.ts[1]
    IN  IF ~settings.ML_PIPELINE_REQUIRE_HMAC \/ headers.sig = None THEN 0
        ELSE IF ~Truthy(secret) THEN 500
        ELSE IF ~verify_hmac_signature_flexible(secret[1], body_bytes, ts, headers.sig[1], now)
             THEN 401
        ELSE 0

\* a verifier that takes the server's time for a missing timestamp header
verify_pipeline_hmac_TsNow(headers, body_bytes) ==
    LET secret == settings.ML_CALLBACK_HMAC_SECRET
        sig == IF headers.sig = None THEN "" ELSE headers.sig[1]
        ts == IF headers.ts = None THEN Str(now) ELSE headers.ts[1]
    IN  IF ~settings.ML_PIPELINE_REQUIRE_HMAC THEN 0
        ELSE IF ~Truthy(secret) THEN 500
        ELSE IF ~verify_hmac_signature_flexible(secret[1], body_bytes, ts, sig, now) THEN 401
        ELSE 0

\* a verifier that still checks a signature that is sent while enforcement is off
verify_pipeline_hmac_VerifyIfSigned(headers, body_bytes) ==
    LET secret == settings.ML_CALLBACK_HMAC_SECRET
        sig == IF headers.sig = None THEN "" ELSE headers.sig[1]
        ts == IF headers.ts = None THEN "0" ELSE headers.ts[1]
    IN  IF ~settings.ML_PIPELINE_REQUIRE_HMAC /\ headers.sig = None THEN 0
        ELSE IF ~Truthy(secret) THEN 500
        ELSE IF ~verify_hmac_signature_flexible(secret[1], body_bytes, ts, sig, now) THEN 401
        ELSE 0

\* _verify_pipeline_hmac: 0 when the request may proceed, else the error code
verify_pipeline_hmac(headers, body_bytes) ==
    LET secret == settings.ML_CALLBACK_HMAC_SECRET
        sig == IF headers.sig = None THEN "" ELSE headers.sig[1]
        ts == IF headers.ts = None THEN "0" ELSE headers.ts[1]
    IN  IF ~settings.ML_PIPELINE_REQUIRE_HMAC THEN 0
        ELSE IF ~Truthy(secret) THEN 500
        ELSE IF ~verify_hmac_signature_flexible(secret[1], body_bytes, ts, sig, now) THEN 401
        ELSE 0

\* a fast path that reads the clock for started_at after it read it for
\* completed_at
FastFinalize_StartsLate(db_obj, normalized_new, error_message) ==
    [db_obj EXCEPT !.started_at = IF @ = None THEN Some(now + 1) ELSE @,
                   !.completed_at = Some(now),
                   !.status = normalized_new,
                   !.error_message = IF Truthy(error_message) THEN error_message ELSE @]

\* a fast path that does not synthesize started_at
FastFinalize_NoStart(db_obj, normalized_new, error_message) ==
    [db_obj EXCEPT !.completed_at = Some(now),
                   !.status = normalized_new,
                   !.error_message = IF Truthy(error_message) THEN error_message ELSE @]

\* a fast path that does not stamp completed_at
FastFinalize_NoCompleted(db_obj, normalized_new, error_message) ==
    [db_obj EXCEPT !.started_at = IF @ = None THEN Some(now) ELSE @,
                   !.status = normalized_new,
                   !.error_message = IF Truthy(error_message) THEN error_message ELSE @]

\* the fast path of finalize: queued -> completed|failed in one step
FastFinalize(db_obj, normalized_new, error_message) ==
    [db_obj EXCEPT !.started_at = IF @ = None THEN Some(now) ELSE @,
                   !.completed_at = Some(now),
                   !.status = normalized_new,
                   !.error_message = IF Truthy(error_message) THEN error_message ELSE @]

\* a fast path taken for completed only
TakesFastPath_CompletedOnly(db_obj, normalized_new) ==
    db_obj.status = "queued" /\ normalized_new \in {"completed"}

\* a fast path taken whatever the current status
TakesFastPath_AnyStatus(db_obj, normalized_new) ==
    normalized_new \in {"completed", "failed"}

\* whether finalize takes the fast path
TakesFastPath(db_obj, normalized_new) ==
    db_obj.status = "queued" /\ normalized_new \in {"completed", "failed"}

\* a finalize that verifies the signature over its own serialization of the
\* parsed request instead of the bytes it received
finalize_analysis_Reserialized(analysis_id, req, headers, body_bytes, current_user) ==
    LET db_obj == analyses[analysis_id]
        normalized_new == Lower(req.status[1])
    IN  IF Preamble(analysis_id, current_user) # 0
        THEN Result(Preamble(analysis_id, current_user), None)
        ELSE IF verify_pipeline_hmac(headers, EncodeFinalize(req, "")) # 0
        THEN Result(verify_pipeline_hmac(headers, EncodeFinalize(req, "")), None)
        ELSE IF Truthy(req.status)
        THEN IF TakesFastPath(db_obj, normalized_new)
             THEN Result(200, Some(FastFinalize(db_obj, normalized_new, req.error_message)))
             ELSE update_ml_analysis_status(
                      analysis_id,
                      [status |-> req.status[1], error_message |-> req.error_message],
                      current_user)
        ELSE Result(get_ml_analysis(analysis_id, current_user), None)

\* a finalize that stores the error message of a request without status
finalize_analysis_StoresMessage(analysis_id, req, headers, body_bytes, current_user) ==
    LET db_obj == analyses[analysis_id]
        normalized_new == Lower(req.status[1])
    IN  IF Preamble(analysis_id, current_user) # 0
        THEN Result(Preamble(analysis_id, current_user), None)
        ELSE IF verify_pipeline_hmac(headers, body_bytes) # 0
        THEN Result(verify_pipeline_hmac(headers, body_bytes), None)
        ELSE IF Truthy(req.status)
        THEN IF TakesFastPath(db_obj, normalized_new)
             THEN Result(200, Some(FastFinalize(db_obj, normalized_new, req.error_message)))
             ELSE update_ml_analysis_status(
                      analysis_id,
                      [status |-> req.status[1], error_message |-> req.error_message],
                      current_user)
        ELSE IF Truthy(req.error_message)
        THEN Result(200, Some([db_obj EXCEPT !.error_message = req.error_message]))
        ELSE Result(get_ml_analysis(analysis_id, current_user), None)

\* a finalize that stamps completed_at again when the analysis already has the
\* terminal status it names
finalize_analysis_Restamp(analysis_id, req, headers, body_bytes, current_user) ==
    LET db_obj == analyses[analysis_id]
        normalized_new == Lower(req.status[1])
    IN  IF Preamble(analysis_id, current_user) # 0
        THEN Result(Preamble(analysis_id, current_user), None)
        ELSE IF verify_pipeline_hmac(headers, body_bytes) # 0
        THEN Result(verify_pipeline_hmac(headers, body_bytes), None)
        ELSE IF Truthy(req.status)
        THEN IF TakesFastPath(db_obj, normalized_new)
             THEN Result(200, Some(FastFinalize(db_obj, normalized_new, req.error_message)))
             ELSE IF db_obj.status = normalized_new /\ normalized_new \in TerminalStatuses
             THEN Result(200, Some([db_obj EXCEPT !.completed_at = Some(now)]))
             ELSE update_ml_analysis_status(
                      analysis_id,
                      [status |-> req.status[1], error_message |-> req.error_message],
                      current_user)
        ELSE Result(get_ml_analysis(analysis_id, current_user), None)

\* POST /analyses/{analysis_id}/finalize
finalize_analysis(analysis_id, req, headers, body_bytes, current_user) ==
    LET db_obj == analyses[analysis_id]
        normalized_new == Lower(req.status[1])
    IN  IF Preamble(analysis_id, current_user) # 0
        THEN Result(Preamble(analysis_id, current_user), None)
        ELSE IF verify_pipeline_hmac(headers, body_bytes) # 0
        THEN Result(verify_pipeline_hmac(headers, body_bytes), None)
        ELSE IF Truthy(req.status)
        THEN IF TakesFastPath(db_obj, normalized_new)
             THEN Result(200, Some(FastFinalize(db_obj, normalized_new, req.error_message)))
             ELSE update_ml_analysis_status(
                      analysis_id,
                      [status |-> req.status[1], error_message |-> req.error_message],
                      current_user)
        ELSE Result(get_ml_analysis(analysis_id, current_user), None)

\* crud.bulk_insert_ml_annotations: the stored items after the insert
bulk_insert_ml_annotations(analysis_id, items) == annotations[analysis_id] \o items

\* a bulk upload whose size check is off by one
bulk_upload_annotations_CapPlusOne(analysis_id, payload, headers, body_bytes, current_user) ==
    IF Preamble(analysis_id, current_user) # 0
    THEN Result(Preamble(analysis_id, current_user), None)
    ELSE IF Len(payload.annotations) > settings.ML_MAX_BULK_ANNOTATIONS + 1
    THEN Result(400, None)
    ELSE IF verify_pipeline_hmac(headers, body_bytes) # 0
    THEN Result(verify_pipeline_hmac(headers, body_bytes), None)
    ELSE Result(200, Some(bulk_insert_ml_annotations(analysis_id, payload.annotations)))

\* a bulk upload that deletes the stored annotations first in mode replace
bulk_upload_annotations_Replace(analysis_id, payload, headers, body_bytes, current_user) ==
    IF Preamble(analysis_id, current_user) # 0
    THEN Result(Preamble(analysis_id, current_user), None)
    ELSE IF Len(payload.annotations) > settings.ML_MAX_BULK_ANNOTATIONS
    THEN Result(400, None)
    ELSE IF verify_pipeline_hmac(headers, body_bytes) # 0
    THEN Result(verify_pipeline_hmac(headers, body_bytes), None)
    ELSE IF payload.mode = "replace"
    THEN Result(200, Some(payload.annotations))
    ELSE Result(200, Some(bulk_insert_ml_annotations(analysis_id, payload.annotations)))

\* a bulk upload that takes results only while the analysis is open
bulk_upload_annotations_OpenOnly(analysis_id, payload, headers, body_bytes, current_user) ==
    IF Preamble(analysis_id, current_user) # 0
    THEN Result(Preamble(analysis_id, current_user), None)
    ELSE IF analyses[analysis_id].status \in TerminalStatuses
    THEN Result(409, None)
    ELSE IF Len(payload.annotations) > settings.ML_MAX_BULK_ANNOTATIONS
    THEN Result(400, None)
    ELSE IF verify_pipeline_hmac(headers, body_bytes) # 0
    THEN Result(verify_pipeline_hmac(headers, body_bytes), None)
    ELSE Result(200, Some(bulk_insert_ml_annotations(analysis_id, payload.annotations)))

\* POST /analyses/{analysis_id}/annotations:bulk
bulk_upload_annotations(analysis_id, payload, headers, body_bytes, current_user) ==
    IF Preamble(analysis_id, current_user) # 0
    THEN Result(Preamble(analysis_id, current_user), None)
    ELSE IF Len(payload.annotations) > settings.ML_MAX_BULK_ANNOTATIONS
    THEN Result(400, None)
    ELSE IF verify_pipeline_hmac(headers, body_bytes) # 0
    THEN Result(verify_pipeline_hmac(headers, body_bytes), None)
    ELSE Result(200, Some(bulk_insert_ml_annotations(analysis_id, payload.annotations)))

\* a presign that puts the time of the request into the path
presign_artifact_upload_Timed(analysis_id, req, headers, body_bytes, current_user) ==
    LET artifact_name ==
            IF Truthy(req.filename) THEN req.filename[1] ELSE req.artifact_type \o ".bin"
        storage_path == "ml_outputs/" \o analysis_id \o "/" \o Str(now) \o "-" \o artifact_name
    IN  IF Preamble(analysis_id, current_user) # 0
        THEN Result(Preamble(analysis_id, current_user), None)
        ELSE IF verify_pipeline_hmac(headers, body_bytes) # 0
        THEN Result(verify_pipeline_hmac(headers, body_bytes), None)
        ELSE Result(200, Some(storage_path))

\* a presign whose signature has to cover the analysis id of the path as well
presign_artifact_upload_PathBound(analysis_id, req, headers, body_bytes, current_user) ==
    LET artifact_name ==
            IF Truthy(req.filename) THEN req.filename[1] ELSE req.artifact_type \o ".bin"
        storage_path == "ml_outputs/" \o analysis_id \o "/" \o artifact_name
    IN  IF Preamble(analysis_id, current_user) # 0
        THEN Result(Preamble(analysis_id, current_user), None)
        ELSE IF verify_pipeline_hmac(headers, analysis_id \o ":" \o body_bytes) # 0
        THEN Result(verify_pipeline_hmac(headers, analysis_id \o ":" \o body_bytes), None)
        ELSE Result(200, Some(storage_path))

\* POST /analyses/{analysis_id}/artifacts/presign; the row is the storage path
presign_artifact_upload(analysis_id, req, headers, body_bytes, current_user) ==
    LET artifact_name ==
            IF Truthy(req.filename) THEN req.filename[1] ELSE req.artifact_type \o ".bin"
        storage_path == "ml_outputs/" \o analysis_id \o "/" \o artifact_name
    IN  IF Preamble(analysis_id, current_user) # 0
        THEN Result(Preamble(analysis_id, current_user), None)
        ELSE IF verify_pipeline_hmac(headers, body_bytes) # 0
        THEN Result(verify_pipeline_hmac(headers, body_bytes), None)
        ELSE Result(200, Some(storage_path))

----------------------------------------------------------------------------
(* The requests clients send *)

\* the signature headers a request with body `body_bytes` may carry; `other` is
\* another rendering of the same payload
HeaderCases(body_bytes, other) ==
    {[ts |-> None, sig |-> None],
     [ts |-> Some(Str(now)), sig |-> Some("sha256=deadbeef")],
     [ts |-> Some(Str(now)), sig |-> Some(Sign("guess", Str(now), body_bytes))],
     [ts |-> Some(Str(now)), sig |-> Some(Sign(ConfiguredSecret, Str(now), other))],
     [ts |-> Some("soon"), sig |-> Some(Sign(ConfiguredSecret, "soon", body_bytes))]}
    \cup {[ts |-> Some(Str(t)), sig |-> Some(Sign(ConfiguredSecret, Str(t), body_bytes))] :
            t \in 0..MaxTs}

Targets == AnalysisIds \cup {GhostId}

CreateRequests ==
    {[op |-> "create", image_id |-> i, body_image_id |-> b, model_name |-> m,
      current_user |-> u] :
        i \in Images \cup {GhostImage}, b \in Images \cup {GhostImage},
        m \in {"resnet50_classifier", "yolo_v8", "evil_model"}, u \in Users}

ReadRequests ==
    {[op |-> "get", analysis_id |-> a, current_user |-> u] : a \in Targets, u \in Users}
    \cup {[op |-> "list", image_id |-> i, current_user |-> u] :
            i \in Images \cup {GhostImage}, u \in Users}

PatchRequests ==
    {[op |-> "patch", analysis_id |-> a, status |-> s, error_message |-> e,
      current_user |-> u] :
        a \in Targets, s \in StatusInputs, e \in MessageInputs, u \in Users}

\* a pipeline request: the parsed payload, the body bytes it was parsed from and
\* the signature headers
Signed(op, analysis_id, payload, body_bytes, other, current_user) ==
    {[op |-> op, analysis_id |-> analysis_id, payload |-> payload,
      body_bytes |-> body_bytes, headers |-> h, current_user |-> current_user] :
        h \in HeaderCases(body_bytes, other)}

FinalizeStatusInputs == {None} \cup {Some(x) : x \in StatusInputs \cup {""}}

FinalizeRequests ==
    UNION {Signed("finalize", a, [status |-> s, error_message |-> e],
                  EncodeFinalize([status |-> s, error_message |-> e], ""),
                  EncodeFinalize([status |-> s, error_message |-> e], " "), u) :
             a \in Targets, s \in FinalizeStatusInputs, e \in MessageInputs, u \in Users}

\* annotation lists of length 0 .. ML_MAX_BULK_ANNOTATIONS + 1
AnnotationLists ==
    UNION {[1..n -> {"cat"}] : n \in 0..(ML_MAX_BULK_ANNOTATIONS + 1)}

\* the store has room for the items (the model keeps at most MaxAnnotations)
Fits(analysis_id, items) ==
    \/ analysis_id \notin DOMAIN annotations
    \/ Len(items) > ML_MAX_BULK_ANNOTATIONS
    \/ Len(annotations[analysis_id]) + Len(items) <= MaxAnnotations

BulkRequests ==
    UNION {Signed("bulk", p[1], [annotations |-> p[2], mode |-> m],
                  EncodeBulk([annotations |-> p[2], mode |-> m], ""),
                  EncodeBulk([annotations |-> p[2], mode |-> m], " "), u) :
             p \in {q \in Targets \X AnnotationLists : Fits(q[1], q[2])},
             m \in {"append", "replace"}, u \in Users}

PresignRequests ==
    UNION {Signed("presign", a, [artifact_type |-> "heatmap", filename |-> f],
                  EncodePresign([artifact_type |-> "heatmap", filename |-> f], ""),
                  EncodePresign([artifact_type |-> "heatmap", filename |-> f], " "), u) :
             a \in Targets, f \in {None, Some("heat.png")}, u \in Users}

----------------------------------------------------------------------------
\* a deployment with the feature on and a secret configured; signature
\* enforcement is a toggle of the deployment
Init ==
    /\ settings \in [ML_ANALYSIS_ENABLED : {TRUE},
                      ML_PIPELINE_REQUIRE_HMAC : BOOLEAN,
                      ML_CALLBACK_HMAC_SECRET : {Some(ConfiguredSecret)},
                      ML_MAX_ANALYSES_PER_IMAGE : {ML_MAX_ANALYSES_PER_IMAGE},
                      ML_MAX_BULK_ANNOTATIONS : {ML_MAX_BULK_ANNOTATIONS}]
    /\ analyses = <<>>
    /\ annotations = <<>>
    /\ now = 1
    /\ inflight = None
    /\ last = NoReply
    /\ log = <<>>

\* the clock advances
Tick ==
    /\ now < MaxTime
    /\ now' = now + 1
    /\ UNCHANGED <<settings, analyses, annotations, inflight, last, log>>

\* a client sends one of `requests`; it signs with the time it reads now.  The
\* model forgets the response and the log records of the request before
SendOf(requests) ==
    /\ inflight = None
    /\ \E req \in requests : inflight' = Some(req)
    /\ last' = NoReply
    /\ log' = <<>>
    /\ UNCHANGED <<settings, analyses, annotations, now>>

Send ==
    SendOf(CreateRequests \cup ReadRequests \cup PatchRequests
               \cup FinalizeRequests \cup BulkRequests \cup PresignRequests)

\* the server takes the request of endpoint `op` off the wire
Handling(op) == inflight # None /\ inflight[1].op = op

\* a create that stamps started_at on the row it stores
Create_Started ==
    /\ Handling("create")
    /\ LET req == inflight[1]
           code == create_ml_analysis(req.image_id, req.body_image_id, req.model_name,
                                      req.current_user)
       IN  /\ code = 201 => Cardinality(DOMAIN analyses) < Len(Uuids)
           /\ IF code = 201
              THEN /\ analyses' = Put(analyses, FreshId,
                                      [NewAnalysis(req.image_id, ML_DEFAULT_STATUS)
                                           EXCEPT !.started_at = Some(now)])
                   /\ annotations' = Put(annotations, FreshId, <<>>)
                   /\ last' = Reply("create", FreshId, code, FALSE, "")
              ELSE /\ UNCHANGED <<analyses, annotations>>
                   /\ last' = Reply("create", "", code, FALSE, "")
    /\ inflight' = None
    /\ UNCHANGED <<settings, now, log>>

Create ==
    /\ Handling("create")
    /\ LET req == inflight[1]
           code == create_ml_analysis(req.image_id, req.body_image_id, req.model_name,
                                      req.current_user)
       IN  /\ code = 201 => Cardinality(DOMAIN analyses) < Len(Uuids)
           /\ IF code = 201
              THEN /\ analyses' = Put(analyses, FreshId,
                                      NewAnalysis(req.image_id, ML_DEFAULT_STATUS))
                   /\ annotations' = Put(annotations, FreshId, <<>>)
                   /\ last' = Reply("create", FreshId, code, FALSE, "")
              ELSE /\ UNCHANGED <<analyses, annotations>>
                   /\ last' = Reply("create", "", code, FALSE, "")
    /\ inflight' = None
    /\ UNCHANGED <<settings, now, log>>

Get ==
    /\ Handling("get")
    /\ LET req == inflight[1]
       IN  last' = Reply("get", req.analysis_id,
                         get_ml_analysis(req.analysis_id, req.current_user), FALSE,
                         StatusOf(req.analysis_id))
    /\ inflight' = None
    /\ UNCHANGED <<settings, analyses, annotations, now, log>>

List ==
    /\ Handling("list")
    /\ LET req == inflight[1]
       IN  last' = Reply("list", req.image_id,
                         list_ml_analyses(req.image_id, req.current_user), FALSE, "")
    /\ inflight' = None
    /\ UNCHANGED <<settings, analyses, annotations, now, log>>

\* a status update that asks for the pipeline's signature like the callbacks do
UpdateStatus_Verified ==
    /\ Handling("patch")
    /\ LET req == inflight[1]
           r == update_ml_analysis_status(
                    req.analysis_id,
                    [status |-> req.status, error_message |-> req.error_message],
                    req.current_user)
           verdict == IF r.code \in {403, 404} THEN 0
                      ELSE verify_pipeline_hmac(req.headers, req.body_bytes)
       IN  /\ analyses' = IF r.row = None \/ verdict # 0 THEN analyses
                          ELSE [analyses EXCEPT ![req.analysis_id] = r.row[1]]
           /\ last' = Reply("patch", req.analysis_id,
                            IF verdict # 0 THEN verdict ELSE r.code,
                            Truthy(req.error_message), StatusOf(req.analysis_id))
           /\ log' = IF verdict # 0 THEN log
                     ELSE log \o StatusAudit(req.analysis_id, StatusOf(req.analysis_id), r,
                                             req.current_user)
    /\ inflight' = None
    /\ UNCHANGED <<settings, annotations, now>>

UpdateStatus ==
    /\ Handling("patch")
    /\ LET req == inflight[1]
           r == update_ml_analysis_status(
                    req.analysis_id,
                    [status |-> req.status, error_message |-> req.error_message],
                    req.current_user)
       IN  /\ analyses' = IF r.row = None THEN analyses
                          ELSE [analyses EXCEPT ![req.analysis_id] = r.row[1]]
           /\ last' = Reply("patch", req.analysis_id, r.code, Truthy(req.error_message),
                            StatusOf(req.analysis_id))
           /\ log' = log \o StatusAudit(req.analysis_id, StatusOf(req.analysis_id), r,
                                         req.current_user)
    /\ inflight' = None
    /\ UNCHANGED <<settings, annotations, now>>

\* finalize_analysis runs on the request on the wire
FinalizeRuns ==
    /\ Handling("finalize")
    /\ LET req == inflight[1]
           r == finalize_analysis(req.analysis_id, req.payload, req.headers,
                                  req.body_bytes, req.current_user)
       IN  /\ analyses' = IF r.row = None THEN analyses
                          ELSE [analyses EXCEPT ![req.analysis_id] = r.row[1]]
           /\ last' = Reply("finalize", req.analysis_id, r.code,
                            Truthy(req.payload.error_message), StatusOf(req.analysis_id))
           /\ log' = log \o StatusAudit(req.analysis_id, StatusOf(req.analysis_id), r,
                                         req.current_user)
    /\ UNCHANGED <<settings, annotations, now>>

Finalize == FinalizeRuns /\ inflight' = None

\* a bulk upload that marks a queued analysis as started when results arrive
BulkAnnotateRuns_Starts ==
    /\ Handling("bulk")
    /\ LET req == inflight[1]
           r == bulk_upload_annotations(req.analysis_id, req.payload, req.headers,
                                        req.body_bytes, req.current_user)
       IN  /\ annotations' = IF r.row = None THEN annotations
                             ELSE [annotations EXCEPT ![req.analysis_id] = r.row[1]]
           /\ analyses' = IF r.row = None THEN analyses
                          ELSE [analyses EXCEPT ![req.analysis_id].started_at =
                                                    IF @ = None THEN Some(now) ELSE @]
           /\ last' = Reply("bulk", req.analysis_id, r.code, FALSE,
                            StatusOf(req.analysis_id))
    /\ UNCHANGED <<settings, now, log>>

\* bulk_upload_annotations runs on the request on the wire
BulkAnnotateRuns ==
    /\ Handling("bulk")
    /\ LET req == inflight[1]
           r == bulk_upload_annotations(req.analysis_id, req.payload, req.headers,
                                        req.body_bytes, req.current_user)
       IN  /\ annotations' = IF r.row = None THEN annotations
                             ELSE [annotations EXCEPT ![req.analysis_id] = r.row[1]]
           /\ last' = Reply("bulk", req.analysis_id, r.code, FALSE,
                            StatusOf(req.analysis_id))
    /\ UNCHANGED <<settings, analyses, now, log>>

BulkAnnotate == BulkAnnotateRuns /\ inflight' = None

\* presign_artifact_upload runs on the request on the wire
PresignRuns ==
    /\ Handling("presign")
    /\ LET req == inflight[1]
           r == presign_artifact_upload(req.analysis_id, req.payload, req.headers,
                                        req.body_bytes, req.current_user)
       IN  last' = Reply("presign", req.analysis_id, r.code, FALSE,
                         StatusOf(req.analysis_id))
    /\ UNCHANGED <<settings, analyses, annotations, now, log>>

Presign == PresignRuns /\ inflight' = None

Next ==
    \/ Tick
    \/ Send
    \/ Create
    \/ Get
    \/ List
    \/ UpdateStatus
    \/ Finalize
    \/ BulkAnnotate
    \/ Presign

Spec == Init /\ [][Next]_vars

----------------------------------------------------------------------------
(* The signed endpoints under every setting of the signature switches, on a *)
(* network that may deliver a request more than once                        *)

\* the signature headers of a request with body `body_bytes`: none; a signature
\* without its timestamp header; a bad signature; an unparsable timestamp; and
\* the configured secret's signature for every timestamp
SigHeaderCases(body_bytes) ==
    {[ts |-> None, sig |-> None],
     [ts |-> None, sig |-> Some(Sign(ConfiguredSecret, "0", body_bytes))],
     [ts |-> None, sig |-> Some(Sign(ConfiguredSecret, Str(now), body_bytes))],
     [ts |-> Some(Str(now)), sig |-> Some("sha256=deadbeef")],
     [ts |-> Some("soon"), sig |-> Some(Sign(ConfiguredSecret, "soon", body_bytes))]}
    \cup {[ts |-> Some(Str(t)), sig |-> Some(Sign(ConfiguredSecret, Str(t), body_bytes))] :
            t \in 0..MaxTs}

\* annotation lists of length 0 .. ML_MAX_BULK_ANNOTATIONS + 1 of two kinds of item
SigAnnotationLists ==
    UNION {[1..n -> {"cat", "dog"}] : n \in 0..(ML_MAX_BULK_ANNOTATIONS + 1)}

\* the store has room for the items after an earlier batch
SigFits(items) ==
    \/ "a1" \notin DOMAIN annotations
    \/ Len(items) > ML_MAX_BULK_ANNOTATIONS
    \/ Len(annotations["a1"]) + Len(items) <= MaxAnnotations + 1

SigSigned(op, payload, body_bytes) ==
    {[op |-> op, analysis_id |-> "a1", payload |-> payload, body_bytes |-> body_bytes,
      headers |-> h, current_user |-> "alice@example.com"] :
        h \in SigHeaderCases(body_bytes)}

\* one create, and the three pipeline writes on the analysis it creates
SigRequests ==
    {[op |-> "create", image_id |-> "img1", body_image_id |-> "img1",
      model_name |-> "resnet50_classifier", current_user |-> "alice@example.com"]}
    \cup UNION {SigSigned("finalize", [status |-> st, error_message |-> None],
                          EncodeFinalize([status |-> st, error_message |-> None], "")) :
                  st \in {None, Some("completed")}}
    \cup UNION {SigSigned("bulk", [annotations |-> items, mode |-> m],
                          EncodeBulk([annotations |-> items, mode |-> m], "")) :
                  items \in {l \in SigAnnotationLists : SigFits(l)},
                  m \in {"append", "replace"}}
    \cup SigSigned("presign", [artifact_type |-> "heatmap", filename |-> None],
                   EncodePresign([artifact_type |-> "heatmap", filename |-> None], ""))

\* every setting of the enforcement switch and of the secret; the clock is
\* further from the epoch than the replay window
SigInit ==
    /\ settings \in [ML_ANALYSIS_ENABLED : {TRUE},
                      ML_PIPELINE_REQUIRE_HMAC : BOOLEAN,
                      ML_CALLBACK_HMAC_SECRET : {None, Some(ConfiguredSecret)},
                      ML_MAX_ANALYSES_PER_IMAGE : {ML_MAX_ANALYSES_PER_IMAGE},
                      ML_MAX_BULK_ANNOTATIONS : {ML_MAX_BULK_ANNOTATIONS}]
    /\ analyses = <<>>
    /\ annotations = <<>>
    /\ now = ReplayWindowSeconds + 1
    /\ inflight = None
    /\ last = NoReply
    /\ log = <<>>

SigTick ==
    /\ now < MaxTs - ReplayWindowSeconds
    /\ now' = now + 1
    /\ UNCHANGED <<settings, analyses, annotations, inflight, last, log>>

SigSend == SendOf(SigRequests)

\* the store has room for one more delivery of the request on the wire
Redeliverable ==
    /\ inflight # None
    /\ inflight[1].analysis_id \in DOMAIN annotations
         => Len(annotations[inflight[1].analysis_id]) <= MaxAnnotations

\* the network delivers the request and keeps a copy it can deliver again
FinalizeAgain == FinalizeRuns /\ Redeliverable /\ inflight' = inflight

BulkAnnotateAgain == BulkAnnotateRuns /\ Redeliverable /\ inflight' = inflight

PresignAgain == PresignRuns /\ Redeliverable /\ inflight' = inflight

SigNext ==
    \/ SigTick
    \/ SigSend
    \/ Create
    \/ Finalize
    \/ BulkAnnotate
    \/ Presign
    \/ FinalizeAgain
    \/ BulkAnnotateAgain
    \/ PresignAgain

SigSpec == SigInit /\ [][SigNext]_vars

----------------------------------------------------------------------------
(* Annotation ingestion and listing: a deployment whose bulk cap is larger  *)
(* than the default page of a listing                                       *)

\* settings.ML_MAX_BULK_ANNOTATIONS of this deployment
AnnBulkCap == ListDefaultLimit + 1

\* the sizes of the batches the pipeline uploads
AnnBatchSizes == {0, 1, ListDefaultLimit, AnnBulkCap, AnnBulkCap + 1}

\* a batch of n annotations
AnnBatch(n) == [i \in 1..n |-> "cat"]

\* what a handled list-annotations request leaves in `last`: as Reply, and the
\* total the response reports
Listing(id, code, old, total) ==
    [op |-> "annotations", id |-> id, code |-> code, em |-> FALSE, old |-> old,
     total |-> total]

\* one create; correctly signed batches for an analysis that has no annotations;
\* listings with and without skip and limit
AnnRequests ==
    {[op |-> "create", image_id |-> "img1", body_image_id |-> "img1",
      model_name |-> "resnet50_classifier", current_user |-> "alice@example.com"]}
    \cup {[op |-> "bulk", analysis_id |-> "a1",
           payload |-> [annotations |-> AnnBatch(n), mode |-> "append"],
           body_bytes |-> EncodeBulk([annotations |-> AnnBatch(n), mode |-> "append"], ""),
           headers |-> [ts |-> Some(Str(now)),
                        sig |-> Some(Sign(ConfiguredSecret, Str(now),
                                 EncodeBulk([annotations |-> AnnBatch(n),
                                             mode |-> "append"], "")))],
           current_user |-> "alice@example.com"] :
            n \in {k \in AnnBatchSizes :
                     "a1" \in DOMAIN annotations => annotations["a1"] = <<>>}}
    \cup {[op |-> "annotations", analysis_id |-> a, skip |-> sk, limit |-> lim,
           current_user |-> u] :
            a \in Targets, sk \in {0, 1},
            lim \in {None, Some(1), Some(ListMaxLimit), Some(ListMaxLimit + 1)},
            u \in Users}

AnnInit ==
    /\ settings \in [ML_ANALYSIS_ENABLED : {TRUE},
                      ML_PIPELINE_REQUIRE_HMAC : {TRUE},
                      ML_CALLBACK_HMAC_SECRET : {Some(ConfiguredSecret)},
                      ML_MAX_ANALYSES_PER_IMAGE : {ML_MAX_ANALYSES_PER_IMAGE},
                      ML_MAX_BULK_ANNOTATIONS : {AnnBulkCap}]
    /\ analyses = <<>>
    /\ annotations = <<>>
    /\ now = 1
    /\ inflight = None
    /\ last = NoReply
    /\ log = <<>>

AnnSend == SendOf(AnnRequests)

ListAnnotations ==
    /\ Handling("annotations")
    /\ LET req == inflight[1]
           r == list_analysis_annotations(req.analysis_id, req.skip, req.limit,
                                          req.current_user)
       IN  last' = Listing(req.analysis_id, r.code, StatusOf(req.analysis_id),
                           IF r.row = None THEN 0 ELSE Len(r.row[1]))
    /\ inflight' = None
    /\ UNCHANGED <<settings, analyses, annotations, now, log>>

AnnNext ==
    \/ AnnSend
    \/ Create
    \/ BulkAnnotate
    \/ ListAnnotations

AnnSpec == AnnInit /\ [][AnnNext]_vars

----------------------------------------------------------------------------
(* Creation under the per-image limit, one request at a time, with the      *)
(* feature on or off                                                        *)

\* settings.ML_MAX_ANALYSES_PER_IMAGE of the deployments
QuotaLimits == {ML_MAX_ANALYSES_PER_IMAGE, ML_MAX_ANALYSES_PER_IMAGE + 1}

\* creates that also name a priority and parameters (MLAnalysisCreate)
DetailedCreateRequests ==
    {[op |-> "create", image_id |-> "img1", body_image_id |-> "img1", model_name |-> m,
      current_user |-> "alice@example.com", priority |-> p, parameters |-> q] :
        m \in {"resnet50_classifier", "yolo_v8"}, p \in {0, 9},
        q \in {"{}", "{status:completed}"}}

QuotaRequests ==
    CreateRequests
    \cup DetailedCreateRequests
    \cup {[op |-> "list", image_id |-> i, current_user |-> u] :
            i \in Images \cup {GhostImage}, u \in Users}

QuotaInit ==
    /\ settings \in [ML_ANALYSIS_ENABLED : BOOLEAN,
                      ML_PIPELINE_REQUIRE_HMAC : {TRUE},
                      ML_CALLBACK_HMAC_SECRET : {Some(ConfiguredSecret)},
                      ML_MAX_ANALYSES_PER_IMAGE : QuotaLimits,
                      ML_MAX_BULK_ANNOTATIONS : {ML_MAX_BULK_ANNOTATIONS}]
    /\ analyses = <<>>
    /\ annotations = <<>>
    /\ now = 1
    /\ inflight = None
    /\ last = NoReply
    /\ log = <<>>

QuotaSend == SendOf(QuotaRequests)

QuotaNext ==
    \/ QuotaSend
    \/ Create
    \/ List

QuotaSpec == QuotaInit /\ [][QuotaNext]_vars

----------------------------------------------------------------------------
(* Concurrent creation: create_ml_analysis suspends at its awaits, so the    *)
(* requests of several clients interleave between the read of the count and *)
(* the insert.  Here `inflight` holds every request being handled.          *)

\* the requests the server handles at the same time
RaceClients == 2

\* create_ml_analysis up to the read of the count: the response code of the
\* check that fails, 0 when all pass
CreateChecks(image_id, body_image_id, current_user) ==
    IF ~settings.ML_ANALYSIS_ENABLED THEN 404
    ELSE IF image_id # body_image_id THEN 400
    ELSE get_image_or_403(image_id, current_user)

\* a limit test that lets one analysis too many through
CreateDecision_OffByOne(existing, model_name) ==
    LET allowed == {Strip(ML_ALLOWED_MODELS[i]) : i \in DOMAIN ML_ALLOWED_MODELS} \ {""}
    IN  IF existing > settings.ML_MAX_ANALYSES_PER_IMAGE THEN 400
        ELSE IF model_name \notin allowed THEN 400
        ELSE 201

\* create_ml_analysis after the read of the count: `existing` is len(existing),
\* the number of rows the read returned
CreateDecision(existing, model_name) ==
    LET allowed == {Strip(ML_ALLOWED_MODELS[i]) : i \in DOMAIN ML_ALLOWED_MODELS} \ {""}
    IN  IF existing >= settings.ML_MAX_ANALYSES_PER_IMAGE THEN 400
        ELSE IF model_name \notin allowed THEN 400
        ELSE 201

\* a create request being handled; `existing` is None until the count is read
RaceRequests ==
    {[op |-> "create", image_id |-> "img1", body_image_id |-> b, model_name |-> m,
      current_user |-> "alice@example.com", existing |-> None] :
        b \in Images \cup {GhostImage}, m \in {"resnet50_classifier", "evil_model"}}

\* a sequence without its k-th element
Remove(seq, k) == SubSeq(seq, 1, k - 1) \o SubSeq(seq, k + 1, Len(seq))

RaceInit ==
    /\ settings \in [ML_ANALYSIS_ENABLED : {TRUE},
                      ML_PIPELINE_REQUIRE_HMAC : {TRUE},
                      ML_CALLBACK_HMAC_SECRET : {Some(ConfiguredSecret)},
                      ML_MAX_ANALYSES_PER_IMAGE : QuotaLimits,
                      ML_MAX_BULK_ANNOTATIONS : {ML_MAX_BULK_ANNOTATIONS}]
    /\ analyses = <<>>
    /\ annotations = <<>>
    /\ now = 1
    /\ inflight = <<>>
    /\ last = NoReply
    /\ log = <<>>

\* a request arrives while fewer than RaceClients are being handled
RaceArrive ==
    /\ Len(inflight) < RaceClients
    /\ \E req \in RaceRequests : inflight' = Append(inflight, req)
    /\ UNCHANGED <<settings, analyses, annotations, now, last, log>>

\* one request runs from its start to the await that reads the count
RaceRead ==
    \E k \in DOMAIN inflight :
        /\ inflight[k].existing = None
        /\ LET req == inflight[k]
               code == CreateChecks(req.image_id, req.body_image_id, req.current_user)
           IN  IF code # 0
               THEN /\ inflight' = Remove(inflight, k)
                    /\ last' = Reply("create", "", code, FALSE, "")
               ELSE /\ inflight' = [inflight EXCEPT ![k].existing =
                          Some(Cardinality(list_ml_analyses_for_image(req.image_id)))]
                    /\ last' = last
        /\ UNCHANGED <<settings, analyses, annotations, now, log>>

\* one request runs from the count it read to its response
RaceWrite ==
    \E k \in DOMAIN inflight :
        /\ inflight[k].existing # None
        /\ LET req == inflight[k]
               code == CreateDecision(req.existing[1], req.model_name)
           IN  /\ code = 201 => Cardinality(DOMAIN analyses) < Len(Uuids)
               /\ IF code = 201
                  THEN /\ analyses' = Put(analyses, FreshId,
                                          NewAnalysis(req.image_id, ML_DEFAULT_STATUS))
                       /\ annotations' = Put(annotations, FreshId, <<>>)
                       /\ last' = Reply("create", FreshId, code, FALSE, "")
                  ELSE /\ UNCHANGED <<analyses, annotations>>
                       /\ last' = Reply("create", "", code, FALSE, "")
        /\ inflight' = Remove(inflight, k)
        /\ UNCHANGED <<settings, now, log>>

RaceNext ==
    \/ RaceArrive
    \/ RaceRead
    \/ RaceWrite

RaceSpec == RaceInit /\ [][RaceNext]_vars

----------------------------------------------------------------------------
(* All eight endpoints, called by a member and by a non-member of the       *)
(* project group, in a deployment whose feature flag the operator switches  *)

GuardTargets == {"a1", "a2", GhostId}

\* the headers of a request signed now with the configured secret, and of a
\* request without signature
GuardHeaderCases(body_bytes) ==
    {[ts |-> None, sig |-> None],
     [ts |-> Some(Str(now)), sig |-> Some(Sign(ConfiguredSecret, Str(now), body_bytes))]}

GuardSigned(op, payload, body_bytes) ==
    {[op |-> op, analysis_id |-> a, payload |-> payload, body_bytes |-> body_bytes,
      headers |-> h, current_user |-> u] :
        a \in GuardTargets, h \in GuardHeaderCases(body_bytes), u \in Users}

GuardRequests ==
    {[op |-> "create", image_id |-> "img1", body_image_id |-> "img1",
      model_name |-> "resnet50_classifier", current_user |-> u] : u \in Users}
    \cup {[op |-> "list", image_id |-> i, current_user |-> u] :
            i \in Images \cup {GhostImage}, u \in Users}
    \cup {[op |-> "get", analysis_id |-> a, current_user |-> u] :
            a \in GuardTargets, u \in Users}
    \cup {[op |-> "annotations", analysis_id |-> a, skip |-> 0, limit |-> None,
           current_user |-> u] : a \in GuardTargets, u \in Users}
    \cup {[op |-> "patch", analysis_id |-> a, status |-> st, error_message |-> None,
           current_user |-> u] :
            a \in GuardTargets, st \in {"processing", "completed"}, u \in Users}
    \cup UNION {GuardSigned("finalize", [status |-> st, error_message |-> None],
                            EncodeFinalize([status |-> st, error_message |-> None], "")) :
                  st \in {None, Some("completed")}}
    \cup UNION {GuardSigned("bulk", [annotations |-> items, mode |-> "append"],
                            EncodeBulk([annotations |-> items, mode |-> "append"], "")) :
                  items \in {l \in AnnotationLists :
                               \A a \in DOMAIN annotations : Fits(a, l)}}
    \cup UNION {GuardSigned("presign", [artifact_type |-> ty, filename |-> f],
                            EncodePresign([artifact_type |-> ty, filename |-> f], "")) :
                  ty \in {"heatmap", "mask"}, f \in {None, Some("heat.png")}}

GuardInit ==
    /\ settings \in [ML_ANALYSIS_ENABLED : {TRUE},
                      ML_PIPELINE_REQUIRE_HMAC : {TRUE},
                      ML_CALLBACK_HMAC_SECRET : {Some(ConfiguredSecret)},
                      ML_MAX_ANALYSES_PER_IMAGE : {ML_MAX_ANALYSES_PER_IMAGE + 1},
                      ML_MAX_BULK_ANNOTATIONS : {ML_MAX_BULK_ANNOTATIONS}]
    /\ analyses = <<>>
    /\ annotations = <<>>
    /\ now = 1
    /\ inflight = None
    /\ last = NoReply
    /\ log = <<>>

GuardSend == SendOf(GuardRequests)

\* the operator restarts the service with the feature flag switched
SwitchFeature ==
    /\ inflight = None
    /\ settings' = [settings EXCEPT !.ML_ANALYSIS_ENABLED = ~@]
    /\ UNCHANGED <<analyses, annotations, now, inflight, last, log>>

GuardNext ==
    \/ Tick
    \/ GuardSend
    \/ SwitchFeature
    \/ Create
    \/ Get
    \/ List
    \/ ListAnnotations
    \/ UpdateStatus
    \/ Finalize
    \/ BulkAnnotate
    \/ Presign

GuardSpec == GuardInit /\ [][GuardNext]_vars

----------------------------------------------------------------------------
(* The pipeline drives one analysis through its lifecycle and finalizes it, *)
(* signing every finalize with the time it reads when it sends               *)

RetryRequests ==
    {[op |-> "create", image_id |-> "img1", body_image_id |-> "img1",
      model_name |-> "resnet50_classifier", current_user |-> "alice@example.com"]}
    \cup {[op |-> "patch", analysis_id |-> "a1", status |-> st, error_message |-> e,
           current_user |-> "alice@example.com"] :
            st \in Statuses, e \in MessageInputs}
    \cup {[op |-> "finalize", analysis_id |-> "a1",
           payload |-> [status |-> st, error_message |-> e],
           body_bytes |-> EncodeFinalize([status |-> st, error_message |-> e], ""),
           headers |-> [ts |-> Some(Str(now)),
                        sig |-> Some(Sign(ConfiguredSecret, Str(now),
                                 EncodeFinalize([status |-> st, error_message |-> e], "")))],
           current_user |-> "alice@example.com"] :
            st \in FinalizeStatusInputs, e \in MessageInputs}

RetryInit ==
    /\ settings \in [ML_ANALYSIS_ENABLED : {TRUE},
                      ML_PIPELINE_REQUIRE_HMAC : {TRUE},
                      ML_CALLBACK_HMAC_SECRET : {Some(ConfiguredSecret)},
                      ML_MAX_ANALYSES_PER_IMAGE : {ML_MAX_ANALYSES_PER_IMAGE},
                      ML_MAX_BULK_ANNOTATIONS : {ML_MAX_BULK_ANNOTATIONS}]
    /\ analyses = <<>>
    /\ annotations = <<>>
    /\ now = 1
    /\ inflight = None
    /\ last = NoReply
    /\ log = <<>>

RetrySend == SendOf(RetryRequests)

RetryNext ==
    \/ Tick
    \/ RetrySend
    \/ Create
    \/ UpdateStatus
    \/ Finalize

RetrySpec == RetryInit /\ [][RetryNext]_vars

----------------------------------------------------------------------------
(* Concurrent status changes: update_ml_analysis_status and finalize_analysis *)
(* load the record, suspend at their awaits, then assign and commit.  Here   *)
(* `inflight` holds every request while it is handled and after its answer.  *)

\* the requests of one run: one more than are handled at the same time
MaxStatusRequests == RaceClients + 1

\* a status change on its way: pc is "arrived", "read" (db_obj holds the record
\* it loaded) or "done" (code holds the answer)
StatusRequests ==
    {[op |-> o, analysis_id |-> "a1", status |-> st, error_message |-> None,
      pc |-> "arrived", db_obj |-> None, code |-> 0] :
        o \in {"patch", "finalize"},
        st \in {"processing", "completed", "failed", "canceled"}}

\* the attributes a status change assigns on the record it loaded, as the
\* statements of update_ml_analysis_status and of the fast path assign them
Assignments(db_obj, new_status, error_message) ==
    [f \in {"status"}
           \cup (IF db_obj.started_at = None
                    /\ (new_status = "processing" \/ TakesFastPath(db_obj, new_status))
                 THEN {"started_at"} ELSE {})
           \cup (IF new_status \in {"completed", "failed", "canceled"}
                 THEN {"completed_at"} ELSE {})
           \cup (IF Truthy(error_message) THEN {"error_message"} ELSE {})
       |-> CASE f = "status" -> new_status
             [] f = "started_at" -> Some(now)
             [] f = "completed_at" -> Some(now)
             [] f = "error_message" -> error_message]

\* what a request decides on the record it loaded: the response code and the
\* attributes it assigns before it commits (None when it commits nothing)
StatusDecision(db_obj, req) ==
    LET new_status == Lower(req.status)
        old_status == Lower(db_obj.status)
    IN  IF req.op = "finalize" /\ TakesFastPath(db_obj, new_status)
        THEN Result(200, Some(Assignments(db_obj, new_status, req.error_message)))
        ELSE IF IsNoOp(old_status, new_status) THEN Result(200, None)
        ELSE IF new_status \notin VALID_STATUS_TRANSITIONS(old_status)
        THEN Result(409, None)
        ELSE Result(200, Some(Assignments(db_obj, new_status, req.error_message)))

\* db.commit(): the UPDATE writes the assigned attributes over the stored row
Commit(row, assigned) ==
    [f \in DOMAIN row |-> IF f \in DOMAIN assigned THEN assigned[f] ELSE row[f]]

\* an analysis exists, queued; no request is being handled
StatusRaceInit ==
    /\ settings \in [ML_ANALYSIS_ENABLED : {TRUE},
                      ML_PIPELINE_REQUIRE_HMAC : {FALSE},
                      ML_CALLBACK_HMAC_SECRET : {Some(ConfiguredSecret)},
                      ML_MAX_ANALYSES_PER_IMAGE : {ML_MAX_ANALYSES_PER_IMAGE},
                      ML_MAX_BULK_ANNOTATIONS : {ML_MAX_BULK_ANNOTATIONS}]
    /\ analyses = [id \in {"a1"} |-> NewAnalysis("img1", ML_DEFAULT_STATUS)]
    /\ annotations = [id \in {"a1"} |-> <<>>]
    /\ now = 1
    /\ inflight = <<>>
    /\ last = NoReply
    /\ log = <<>>

\* a request arrives while fewer than RaceClients are being handled
StatusArrive ==
    /\ Len(inflight) < MaxStatusRequests
    /\ Cardinality({k \in DOMAIN inflight : inflight[k].pc # "done"}) < RaceClients
    /\ \E req \in StatusRequests : inflight' = Append(inflight, req)
    /\ UNCHANGED <<settings, analyses, annotations, now, last, log>>

\* one request runs to the await after crud.get_ml_analysis
StatusRead ==
    \E k \in DOMAIN inflight :
        /\ inflight[k].pc = "arrived"
        /\ Preamble(inflight[k].analysis_id, "alice@example.com") = 0
        /\ inflight' = [inflight EXCEPT ![k].pc = "read",
                                        ![k].db_obj = get_ml_analysis_row(inflight[k].analysis_id)]
        /\ UNCHANGED <<settings, analyses, annotations, now, last, log>>

\* one request runs from the record it loaded to its response
StatusCommit ==
    \E k \in DOMAIN inflight :
        /\ inflight[k].pc = "read"
        /\ LET req == inflight[k]
               r == StatusDecision(req.db_obj[1], req)
           IN  /\ analyses' = IF r.row = None THEN analyses
                              ELSE [analyses EXCEPT ![req.analysis_id] = Commit(@, r.row[1])]
               /\ inflight' = [inflight EXCEPT ![k].pc = "done", ![k].code = r.code]
               /\ last' = Reply(req.op, req.analysis_id, r.code, FALSE,
                                req.db_obj[1].status)
               /\ log' = log \o StatusAudit(req.analysis_id, req.db_obj[1].status, r,
                                             "alice@example.com")
        /\ UNCHANGED <<settings, annotations, now>>

StatusRaceNext ==
    \/ StatusArrive
    \/ StatusRead
    \/ StatusCommit

StatusRaceSpec == StatusRaceInit /\ [][StatusRaceNext]_vars

----------------------------------------------------------------------------
(* The pipeline uploads results and asks for upload paths at every stage of *)
(* the lifecycle of one analysis                                            *)

\* a pipeline request for the analysis, without signature and signed now
IngestSigned(op, payload, body_bytes) ==
    {[op |-> op, analysis_id |-> "a1", payload |-> payload, body_bytes |-> body_bytes,
      headers |-> h, current_user |-> "alice@example.com"] :
        h \in GuardHeaderCases(body_bytes)}

\* one create; every status update; batches up to one above the cap and presign
\* requests, each without signature and signed now with the configured secret
IngestRequests ==
    {[op |-> "create", image_id |-> "img1", body_image_id |-> "img1",
      model_name |-> "resnet50_classifier", current_user |-> "alice@example.com"]}
    \cup {[op |-> "patch", analysis_id |-> "a1", status |-> st, error_message |-> None,
           current_user |-> "alice@example.com"] : st \in Statuses}
    \cup UNION {IngestSigned("bulk", [annotations |-> items, mode |-> "append"],
                             EncodeBulk([annotations |-> items, mode |-> "append"], "")) :
                  items \in {l \in AnnotationLists : Fits("a1", l)}}
    \cup UNION {IngestSigned("presign", [artifact_type |-> "heatmap", filename |-> f],
                             EncodePresign([artifact_type |-> "heatmap", filename |-> f], "")) :
                  f \in {None, Some("heat.png")}}

IngestInit ==
    /\ settings \in [ML_ANALYSIS_ENABLED : {TRUE},
                      ML_PIPELINE_REQUIRE_HMAC : {TRUE},
                      ML_CALLBACK_HMAC_SECRET : {Some(ConfiguredSecret)},
                      ML_MAX_ANALYSES_PER_IMAGE : {ML_MAX_ANALYSES_PER_IMAGE},
                      ML_MAX_BULK_ANNOTATIONS : {ML_MAX_BULK_ANNOTATIONS}]
    /\ analyses = <<>>
    /\ annotations = <<>>
    /\ now = 1
    /\ inflight = None
    /\ last = NoReply
    /\ log = <<>>

IngestSend == SendOf(IngestRequests)

IngestNext ==
    \/ IngestSend
    \/ Create
    \/ UpdateStatus
    \/ BulkAnnotate
    \/ Presign

IngestSpec == IngestInit /\ [][IngestNext]_vars

----------------------------------------------------------------------------
(* Two analyses of one image; the pipeline signs its requests for the first, *)
(* and an intermediary that has seen a request sends its body and headers    *)
(* again, to the same analysis or to the other one                           *)

\* the headers of a request: none, a bad signature, and the configured secret's
\* signature for the time of sending
RedirectHeaderCases(body_bytes) ==
    {[ts |-> None, sig |-> None],
     [ts |-> Some(Str(now)), sig |-> Some("sha256=deadbeef")],
     [ts |-> Some(Str(now)), sig |-> Some(Sign(ConfiguredSecret, Str(now), body_bytes))]}

\* a pipeline request for the first analysis
RedirectSigned(op, payload, body_bytes) ==
    {[op |-> op, analysis_id |-> Uuids[1], payload |-> payload, body_bytes |-> body_bytes,
      headers |-> h, current_user |-> "alice@example.com"] :
        h \in RedirectHeaderCases(body_bytes)}

\* every analysis has room for one more batch
RedirectFits ==
    \A a \in DOMAIN annotations : Len(annotations[a]) < MaxAnnotations

RedirectRequests ==
    {[op |-> "create", image_id |-> "img1", body_image_id |-> "img1",
      model_name |-> "resnet50_classifier", current_user |-> "alice@example.com"]}
    \cup UNION {RedirectSigned("finalize", [status |-> st, error_message |-> None],
                               EncodeFinalize([status |-> st, error_message |-> None], "")) :
                  st \in {None, Some("completed")}}
    \cup UNION {RedirectSigned("bulk", [annotations |-> items, mode |-> "append"],
                               EncodeBulk([annotations |-> items, mode |-> "append"], "")) :
                  items \in {l \in AnnotationLists : Len(l) > 0 => RedirectFits}}
    \cup RedirectSigned("presign", [artifact_type |-> "heatmap", filename |-> None],
                        EncodePresign([artifact_type |-> "heatmap", filename |-> None], ""))

RedirectInit ==
    /\ settings \in [ML_ANALYSIS_ENABLED : {TRUE},
                      ML_PIPELINE_REQUIRE_HMAC : {TRUE},
                      ML_CALLBACK_HMAC_SECRET : {Some(ConfiguredSecret)},
                      ML_MAX_ANALYSES_PER_IMAGE : {ML_MAX_ANALYSES_PER_IMAGE + 1},
                      ML_MAX_BULK_ANNOTATIONS : {ML_MAX_BULK_ANNOTATIONS}]
    /\ analyses = <<>>
    /\ annotations = <<>>
    /\ now = 1
    /\ inflight = None
    /\ last = NoReply
    /\ log = <<>>

RedirectSend == SendOf(RedirectRequests)

\* the intermediary puts another analysis id into the path of the request it
\* holds; body and headers stay as the pipeline sent them
Redirect ==
    /\ inflight # None
    /\ inflight[1].op \in {"finalize", "bulk", "presign"}
    /\ \E a \in DOMAIN analyses :
          /\ a # inflight[1].analysis_id
          /\ inflight' = Some([inflight[1] EXCEPT !.analysis_id = a])
    /\ UNCHANGED <<settings, analyses, annotations, now, last, log>>

RedirectNext ==
    \/ Tick
    \/ RedirectSend
    \/ Redirect
    \/ Create
    \/ Finalize
    \/ FinalizeAgain
    \/ BulkAnnotate
    \/ BulkAnnotateAgain
    \/ Presign
    \/ PresignAgain

RedirectSpec == RedirectInit /\ [][RedirectNext]_vars

----------------------------------------------------------------------------
(* Status updates by callers who do not hold the shared secret, in a         *)
(* deployment that requires signatures                                       *)

\* the X-ML-* headers such a caller can send with a body: none, a made-up
\* signature, and a signature computed with a guessed secret
OutsiderHeaderCases(body_bytes) ==
    {[ts |-> None, sig |-> None],
     [ts |-> Some(Str(now)), sig |-> Some("sha256=deadbeef")],
     [ts |-> Some(Str(now)), sig |-> Some(Sign("guess", Str(now), body_bytes))]}

\* PATCH /analyses/{id}/status requests with their body bytes and headers
OutsiderPatches(st, e) ==
    {[op |-> "patch", analysis_id |-> a, status |-> st, error_message |-> e,
      body_bytes |-> EncodeFinalize([status |-> Some(st), error_message |-> e], ""),
      headers |-> h, current_user |-> u] :
        a \in Targets, u \in Users,
        h \in OutsiderHeaderCases(
                 EncodeFinalize([status |-> Some(st), error_message |-> e], ""))}

OutsiderRequests ==
    {[op |-> "create", image_id |-> "img1", body_image_id |-> "img1",
      model_name |-> "resnet50_classifier", current_user |-> "alice@example.com"]}
    \cup UNION {OutsiderPatches(st, e) : st \in StatusInputs, e \in MessageInputs}

OutsiderInit ==
    /\ settings \in [ML_ANALYSIS_ENABLED : {TRUE},
                      ML_PIPELINE_REQUIRE_HMAC : {TRUE},
                      ML_CALLBACK_HMAC_SECRET : {Some(ConfiguredSecret)},
                      ML_MAX_ANALYSES_PER_IMAGE : {ML_MAX_ANALYSES_PER_IMAGE},
                      ML_MAX_BULK_ANNOTATIONS : {ML_MAX_BULK_ANNOTATIONS}]
    /\ analyses = <<>>
    /\ annotations = <<>>
    /\ now = 1
    /\ inflight = None
    /\ last = NoReply
    /\ log = <<>>

OutsiderSend == SendOf(OutsiderRequests)

OutsiderNext ==
    \/ Tick
    \/ OutsiderSend
    \/ Create
    \/ UpdateStatus

OutsiderSpec == OutsiderInit /\ [][OutsiderNext]_vars

----------------------------------------------------------------------------
(* Clients that never spell a status in lower case                           *)

\* the status strings these clients send: the values of the lifecycle in other
\* letter cases, and a string that is no status in any case
CaseInputs == {"PROCESSING", "COMPLETED", "Failed", "Canceled", "bogus"}

CaseRequests ==
    {[op |-> "create", image_id |-> "img1", body_image_id |-> "img1",
      model_name |-> "resnet50_classifier", current_user |-> "alice@example.com"]}
    \cup {[op |-> "patch", analysis_id |-> "a1", status |-> st, error_message |-> e,
           current_user |-> "alice@example.com"] :
            st \in CaseInputs, e \in MessageInputs}
    \cup {[op |-> "finalize", analysis_id |-> "a1",
           payload |-> [status |-> st, error_message |-> e],
           body_bytes |-> EncodeFinalize([status |-> st, error_message |-> e], ""),
           headers |-> [ts |-> Some(Str(now)),
                        sig |-> Some(Sign(ConfiguredSecret, Str(now),
                                 EncodeFinalize([status |-> st, error_message |-> e], "")))],
           current_user |-> "alice@example.com"] :
            st \in {None, Some("")} \cup {Some(x) : x \in CaseInputs},
            e \in MessageInputs}

CaseInit ==
    /\ settings \in [ML_ANALYSIS_ENABLED : {TRUE},
                      ML_PIPELINE_REQUIRE_HMAC : {TRUE},
                      ML_CALLBACK_HMAC_SECRET : {Some(ConfiguredSecret)},
                      ML_MAX_ANALYSES_PER_IMAGE : {ML_MAX_ANALYSES_PER_IMAGE},
                      ML_MAX_BULK_ANNOTATIONS : {ML_MAX_BULK_ANNOTATIONS}]
    /\ analyses = <<>>
    /\ annotations = <<>>
    /\ now = 1
    /\ inflight = None
    /\ last = NoReply
    /\ log = <<>>

CaseSend == SendOf(CaseRequests)

CaseNext ==
    \/ Tick
    \/ CaseSend
    \/ Create
    \/ UpdateStatus
    \/ Finalize

CaseSpec == CaseInit /\ [][CaseNext]_vars

----------------------------------------------------------------------------
(* Senders whose serializers lay out the same payload in different bytes,   *)
(* and whose signature covers one layout or the other                       *)

\* the whitespace a serializer puts after separators: none, or one blank
Layouts == {"", " "}

\* the bytes of a payload of endpoint `op` in a layout
Rendering(op, payload, pad) ==
    CASE op = "finalize" -> EncodeFinalize(payload, pad)
      [] op = "bulk" -> EncodeBulk(payload, pad)
      [] op = "presign" -> EncodePresign(payload, pad)

\* requests that carry the payload in one layout and a signature, made now with
\* the configured secret, over one layout
BytesSigned(op, payload) ==
    {[op |-> op, analysis_id |-> "a1", payload |-> payload,
      body_bytes |-> Rendering(op, payload, sent),
      headers |-> [ts |-> Some(Str(now)),
                   sig |-> Some(Sign(ConfiguredSecret, Str(now),
                                     Rendering(op, payload, signed)))],
      current_user |-> "alice@example.com"] :
        sent \in Layouts, signed \in Layouts}

BytesRequests ==
    {[op |-> "create", image_id |-> "img1", body_image_id |-> "img1",
      model_name |-> "resnet50_classifier", current_user |-> "alice@example.com"]}
    \cup UNION {BytesSigned("finalize", [status |-> st, error_message |-> e]) :
                  st \in {None, Some("completed"), Some("failed")}, e \in MessageInputs}
    \cup UNION {BytesSigned("bulk", [annotations |-> items, mode |-> m]) :
                  items \in {l \in SigAnnotationLists : SigFits(l)},
                  m \in {"append", "replace"}}
    \cup UNION {BytesSigned("presign", [artifact_type |-> "heatmap", filename |-> f]) :
                  f \in {None, Some("heat.png")}}

BytesInit ==
    /\ settings \in [ML_ANALYSIS_ENABLED : {TRUE},
                      ML_PIPELINE_REQUIRE_HMAC : {TRUE},
                      ML_CALLBACK_HMAC_SECRET : {Some(ConfiguredSecret)},
                      ML_MAX_ANALYSES_PER_IMAGE : {ML_MAX_ANALYSES_PER_IMAGE},
                      ML_MAX_BULK_ANNOTATIONS : {ML_MAX_BULK_ANNOTATIONS}]
    /\ analyses = <<>>
    /\ annotations = <<>>
    /\ now = 1
    /\ inflight = None
    /\ last = NoReply
    /\ log = <<>>

BytesSend == SendOf(BytesRequests)

BytesNext ==
    \/ BytesSend
    \/ Create
    \/ Finalize
    \/ FinalizeAgain
    \/ BulkAnnotate
    \/ BulkAnnotateAgain
    \/ Presign
    \/ PresignAgain

BytesSpec == BytesInit /\ [][BytesNext]_vars

----------------------------------------------------------------------------
(* Properties of the lifecycle and of the signed endpoints *)

\* the transition table as the specification prints it
TransitionTable(from) ==
    CASE from = "queued" -> {"processing", "canceled"}
      [] from = "processing" -> {"completed", "failed", "canceled"}
      [] from \in {"completed", "failed", "canceled"} -> {}
      [] OTHER -> {}

\* this step is the server handling a request of one of the endpoints `ops`
Handles(ops) == inflight # None /\ inflight[1].op \in ops /\ inflight' = None

PipelineWrites == {"finalize", "bulk", "presign"}

\* the feature is on, the analysis exists and the caller may use its image
Admitted(req) ==
    /\ settings.ML_ANALYSIS_ENABLED
    /\ req.analysis_id \in DOMAIN analyses
    /\ analyses[req.analysis_id].image_id \in Images
    /\ req.current_user \in GroupMembers

EnforcementOn ==
    settings.ML_PIPELINE_REQUIRE_HMAC /\ Truthy(settings.ML_CALLBACK_HMAC_SECRET)

\* both headers present, the timestamp inside the replay window, the signature
\* the one the holder of the configured secret computes over timestamp and body
ValidlySigned(req) ==
    /\ req.headers.ts # None
    /\ req.headers.sig # None
    /\ ParseInt(req.headers.ts[1]) # None
    /\ Abs(now - ParseInt(req.headers.ts[1])[1]) <= ReplayWindowSeconds
    /\ req.headers.sig[1]
         = Sign(settings.ML_CALLBACK_HMAC_SECRET[1], req.headers.ts[1], req.body_bytes)

\* the request carries a signature, and not the one of its timestamp and body
Mismatched(req) ==
    /\ req.headers.sig # None
    /\ req.headers.sig[1]
         # Sign(settings.ML_CALLBACK_HMAC_SECRET[1],
                IF req.headers.ts = None THEN "0" ELSE req.headers.ts[1],
                req.body_bytes)

\* C1: once an analysis is completed, failed or canceled, no request changes
\* its status again
C1_TerminalStatusIsFinal ==
    [][\A id \in DOMAIN analyses :
          analyses[id].status \in TerminalStatuses
            => /\ id \in DOMAIN analyses'
               /\ analyses'[id].status = analyses[id].status]_vars

\* a request tried to move a finished analysis and was refused
C1_Witness ==
    /\ last.op \in {"patch", "finalize"}
    /\ last.old \in TerminalStatuses
    /\ last.code = 409
    /\ analyses[last.id].status = last.old

\* C2: a status update whose requested status (compared after lower-casing, as
\* the handler compares it) differs from the current one and is not in the
\* transition table is answered 409 and leaves the whole record unchanged
C2_IllegalTransitionRejected ==
    [][(/\ Handles({"patch"})
        /\ Admitted(inflight[1])
        /\ Lower(inflight[1].status) # analyses[inflight[1].analysis_id].status
        /\ Lower(inflight[1].status)
             \notin TransitionTable(analyses[inflight[1].analysis_id].status))
         => /\ last'.code = 409
            /\ analyses' = analyses]_vars

\* a status update on a queued analysis was refused
C2_Witness ==
    /\ last.op = "patch"
    /\ last.code = 409
    /\ last.old = "queued"
    /\ analyses[last.id] = NewAnalysis(analyses[last.id].image_id, "queued")

\* C3: a status update whose target equals the current status returns success
\* and leaves every field of the record as it was, error message or not
C3_EchoIsNoOp ==
    [][(/\ Handles({"patch"})
        /\ Admitted(inflight[1])
        /\ Lower(inflight[1].status) = analyses[inflight[1].analysis_id].status)
         => /\ last'.code = 200
            /\ analyses' = analyses]_vars

\* a finished analysis without an error message answered 200 to a status update
\* that carried one; from a terminal status only an echo is answered 200
C3_Witness ==
    /\ last.op = "patch"
    /\ last.code = 200
    /\ last.em
    /\ last.old \in TerminalStatuses
    /\ analyses[last.id].status = last.old
    /\ analyses[last.id].error_message = None

\* C4: a validly signed finalize with status completed or failed on a queued
\* analysis succeeds in one step: the status is the requested one, started_at
\* and completed_at are both non-null
C4_FastFinalize ==
    [][(/\ Handles({"finalize"})
        /\ Admitted(inflight[1])
        /\ EnforcementOn
        /\ ValidlySigned(inflight[1])
        /\ analyses[inflight[1].analysis_id].status = "queued"
        /\ inflight[1].payload.status \in {Some("completed"), Some("failed")})
         => /\ last'.code = 200
            /\ analyses'[inflight[1].analysis_id].status = inflight[1].payload.status[1]
            /\ analyses'[inflight[1].analysis_id].started_at # None
            /\ analyses'[inflight[1].analysis_id].completed_at # None]_vars

\* a queued analysis was finalized as failed in one step
C4_Witness ==
    /\ EnforcementOn
    /\ last.op = "finalize"
    /\ last.code = 200
    /\ last.old = "queued"
    /\ analyses[last.id].status = "failed"
    /\ analyses[last.id].started_at # None
    /\ analyses[last.id].completed_at # None

\* what a status update with the same status and error message would answer and
\* store at this moment
AsStatusUpdate(req) ==
    update_ml_analysis_status(
        req.analysis_id,
        [status |-> req.payload.status[1], error_message |-> req.payload.error_message],
        req.current_user)

\* C5: a validly signed finalize with a status, on an analysis that is not
\* queued, answers and stores what the status update would: from processing
\* the targets completed, failed and canceled are accepted, from a terminal
\* status every different target is answered 409 with the record unchanged
C5_FinalizeFollowsTable ==
    [][(/\ Handles({"finalize"})
        /\ Admitted(inflight[1])
        /\ EnforcementOn
        /\ ValidlySigned(inflight[1])
        /\ Truthy(inflight[1].payload.status)
        /\ analyses[inflight[1].analysis_id].status # "queued")
         => LET req == inflight[1]
                id == req.analysis_id
                cur == analyses[id].status
                target == Lower(req.payload.status[1])
            IN  /\ last'.code = AsStatusUpdate(req).code
                /\ analyses' = IF AsStatusUpdate(req).row = None THEN analyses
                               ELSE [analyses EXCEPT ![id] = AsStatusUpdate(req).row[1]]
                /\ target \in TransitionTable(cur)
                     => last'.code = 200 /\ analyses'[id].status = target
                /\ (target # cur /\ target \notin TransitionTable(cur))
                     => last'.code = 409 /\ analyses' = analyses]_vars

\* a finalize tried to move a finished analysis and was refused
C5_Witness ==
    /\ EnforcementOn
    /\ last.op = "finalize"
    /\ last.code = 409
    /\ last.old \in TerminalStatuses
    /\ analyses[last.id].status = last.old
    /\ analyses[last.id].completed_at # None

\* C6, as stated: an analysis whose status is processing, completed, failed or
\* canceled has a non-null started_at
C6_StartedAtSetOnceStarted ==
    \A id \in DOMAIN analyses :
        analyses[id].status \in {"processing", "completed", "failed", "canceled"}
            => analyses[id].started_at # None

\* C6, amended: an analysis whose status is processing, completed or failed has
\* a non-null started_at (queued -> canceled leaves started_at null)
C6_StartedAtSetUnlessCanceled ==
    \A id \in DOMAIN analyses :
        analyses[id].status \in {"processing", "completed", "failed"}
            => analyses[id].started_at # None

\* a status update moved a queued analysis to processing and stamped started_at
C6_Witness ==
    /\ last.op = "patch"
    /\ last.code = 200
    /\ last.old = "queued"
    /\ analyses[last.id].status = "processing"
    /\ analyses[last.id].started_at # None

\* C7: completed_at of an analysis is non-null if and only if its status is
\* completed, failed or canceled
C7_CompletedAtIffTerminal ==
    \A id \in DOMAIN analyses :
        analyses[id].completed_at # None <=> analyses[id].status \in TerminalStatuses

\* a status update canceled a queued analysis and stamped completed_at
C7_Witness ==
    /\ last.op = "patch"
    /\ last.code = 200
    /\ last.old = "queued"
    /\ analyses[last.id].status = "canceled"
    /\ analyses[last.id].completed_at # None

\* C8: an analysis with a non-null error_message has status failed
C8_ErrorMessageOnlyWhenFailed ==
    \A id \in DOMAIN analyses :
        analyses[id].error_message # None => analyses[id].status = "failed"

\* C9: with enforcement on and a secret configured, a bulk-annotate, presign or
\* finalize request whose signature is missing, mismatched or expired changes
\* neither the analysis records nor the stored annotations
C9_BadSignatureMutatesNothing ==
    [][(/\ Handles(PipelineWrites)
        /\ EnforcementOn
        /\ ~ValidlySigned(inflight[1]))
         => /\ analyses' = analyses
            /\ annotations' = annotations]_vars

\* a finalize on a queued analysis was turned away for its signature
C9_Witness ==
    /\ EnforcementOn
    /\ last.op = "finalize"
    /\ last.code = 401
    /\ last.old = "queued"
    /\ analyses[last.id].status = "queued"

\* C10: with the feature on, enforcement on, a secret configured, the analysis
\* existing and the caller allowed, every bulk-annotate, presign and finalize
\* request that carries a non-matching signature is answered 401
C10_BadSignatureIs401 ==
    [][(/\ Handles(PipelineWrites)
        /\ Admitted(inflight[1])
        /\ EnforcementOn
        /\ Mismatched(inflight[1]))
         => last'.code = 401]_vars

----------------------------------------------------------------------------
(* Properties of signature verification *)

\* this step is the server running the handler of one of the endpoints `ops` on
\* the request on the wire, whether or not the network keeps a copy
Delivers(ops) ==
    /\ inflight # None
    /\ inflight[1].op \in ops
    /\ now' = now
    /\ inflight' = None \/ inflight' = inflight

\* timestamp texts a signer may have signed
TimestampTexts == {"0", "soon"} \cup {Str(t) : t \in 0..MaxTs}

\* the signature is the configured secret's signature over the request's body
\* and its timestamp (over some timestamp, when the header is missing)
SignatureCorrect(req) ==
    /\ req.headers.sig # None
    /\ \E t \in (IF req.headers.ts = None THEN TimestampTexts ELSE {req.headers.ts[1]}) :
           req.headers.sig[1] = Sign(ConfiguredSecret, t, req.body_bytes)

\* the timestamp header is present, is a number and is within the replay window
\* of the server's time, in the past or in the future
InWindow(req) ==
    /\ req.headers.ts # None
    /\ ParseInt(req.headers.ts[1]) # None
    /\ now - ParseInt(req.headers.ts[1])[1] <= ReplayWindowSeconds
    /\ ParseInt(req.headers.ts[1])[1] - now <= ReplayWindowSeconds

\* the handler gets as far as verifying the signature
ReachesVerifier(req) ==
    req.op = "bulk" => Len(req.payload.annotations) <= settings.ML_MAX_BULK_ANNOTATIONS

\* C11: with enforcement on and a secret configured, a pipeline write with a
\* correct signature passes verification if and only if its timestamp is within
\* the replay window, past or future; outside the window, or with a missing or
\* unparsable timestamp, verification answers 401 and nothing is written
C11_AcceptedIffInWindow ==
    [][(/\ Delivers(PipelineWrites)
        /\ Admitted(inflight[1])
        /\ EnforcementOn
        /\ SignatureCorrect(inflight[1]))
         => LET req == inflight[1]
                verdict == verify_pipeline_hmac(req.headers, req.body_bytes)
            IN  /\ InWindow(req) => verdict = 0 /\ last'.code # 401
                /\ ~InWindow(req)
                     => /\ verdict = 401
                        /\ ReachesVerifier(req) => last'.code = 401
                        /\ analyses' = analyses
                        /\ annotations' = annotations]_vars

\* a request signed with the configured secret for a timestamp older than the
\* replay window was answered 401
C11_Witness ==
    /\ EnforcementOn
    /\ inflight # None
    /\ inflight[1].op \in PipelineWrites
    /\ last.op = inflight[1].op
    /\ last.code = 401
    /\ inflight[1].headers.ts # None
    /\ SignatureCorrect(inflight[1])
    /\ ParseInt(inflight[1].headers.ts[1]) # None
    /\ ParseInt(inflight[1].headers.ts[1])[1] < ReplayWindowSeconds

\* C12: a pipeline write that was accepted is not accepted again when the
\* identical request (same timestamp, body and signature) is delivered again,
\* and its effect is not applied a second time
C12_AcceptedExactlyOnce ==
    [][(/\ Delivers(PipelineWrites)
        /\ EnforcementOn
        /\ last.op = inflight[1].op
        /\ last.code = 200)
         => /\ last'.code # 200
            /\ analyses' = analyses
            /\ annotations' = annotations]_vars

\* C13: with enforcement on and no secret configured, every pipeline write on
\* an existing, accessible analysis is answered 500 and changes no state
C13_NoSecretIs500 ==
    [][(/\ Delivers(PipelineWrites)
        /\ Admitted(inflight[1])
        /\ settings.ML_PIPELINE_REQUIRE_HMAC
        /\ ~Truthy(settings.ML_CALLBACK_HMAC_SECRET))
         => /\ last'.code = 500
            /\ analyses' = analyses
            /\ annotations' = annotations]_vars

\* what the handler of the request's endpoint answers and commits
Outcome(req) ==
    CASE req.op = "finalize" ->
           finalize_analysis(req.analysis_id, req.payload, req.headers, req.body_bytes,
                             req.current_user)
      [] req.op = "bulk" ->
           bulk_upload_annotations(req.analysis_id, req.payload, req.headers,
                                   req.body_bytes, req.current_user)
      [] req.op = "presign" ->
           presign_artifact_upload(req.analysis_id, req.payload, req.headers,
                                   req.body_bytes, req.current_user)

\* C14: with enforcement off the outcome of a pipeline write is the same for
\* every value of the timestamp and signature headers, absent ones included,
\* with or without a configured secret: no request is turned away with 401 or 500
C14_EnforcementOffIgnoresHeaders ==
    [][(/\ Delivers(PipelineWrites)
        /\ ~settings.ML_PIPELINE_REQUIRE_HMAC)
         => LET req == inflight[1]
            IN  /\ last'.code = Outcome(req).code
                /\ last'.code \notin {401, 500}
                /\ \A h \in SigHeaderCases(req.body_bytes) :
                       Outcome([req EXCEPT !.headers = h]) = Outcome(req)
                /\ (Admitted(req) /\ req.op = "presign") => last'.code = 200]_vars

\* without enforcement and without a secret, annotations sent with a bad
\* signature were stored
C14_Witness ==
    /\ ~settings.ML_PIPELINE_REQUIRE_HMAC
    /\ settings.ML_CALLBACK_HMAC_SECRET = None
    /\ inflight # None
    /\ inflight[1].op = "bulk"
    /\ inflight[1].headers.sig = Some("sha256=deadbeef")
    /\ last.op = "bulk"
    /\ last.code = 200
    /\ Len(annotations[inflight[1].analysis_id]) > 0

----------------------------------------------------------------------------
(* Properties of annotation ingestion *)

\* C15: a bulk-annotate request with more annotations than the cap is rejected
\* (400 when the caller gets that far) and the stored annotations are exactly
\* those from before the request
C15_OverCapRejected ==
    [][(/\ Handles({"bulk"})
        /\ Len(inflight[1].payload.annotations) > settings.ML_MAX_BULK_ANNOTATIONS)
         => /\ last'.code >= 400
            /\ Admitted(inflight[1]) => last'.code = 400
            /\ annotations' = annotations]_vars

\* an over-cap batch was answered 400 on an analysis that already had an
\* annotation, and the stored annotations are that many still
C15_Witness ==
    /\ last.op = "bulk"
    /\ last.code = 400
    /\ Len(annotations[last.id]) = MaxAnnotations

\* the smaller of two numbers
Min(a, b) == IF a < b THEN a ELSE b

\* a batch of N annotations was accepted on an analysis that had none, so the
\* analysis stores those N, and the request on the wire lists them
ListsAfterBatch ==
    /\ Handles({"annotations"})
    /\ last'.code = 200
    /\ Len(annotations[inflight[1].analysis_id]) <= settings.ML_MAX_BULK_ANNOTATIONS

\* C16 as stated: for every N up to the cap, after a batch of N annotations is
\* accepted on an analysis that had none, a following list-annotations call
\* (no skip, no limit named) returns exactly N items
C16_ListReturnsAll ==
    [][(/\ ListsAfterBatch
        /\ inflight[1].skip = 0
        /\ inflight[1].limit = None)
         => last'.total = Len(annotations[inflight[1].analysis_id])]_vars

\* C16 amended: the call returns the N items less the skipped ones, and at most
\* `limit` of them (200 when the call names no limit); so exactly N when it
\* skips none and N is at most the limit.  A limit above 1000 is refused.
C16_ListReturnsPage ==
    [][/\ ListsAfterBatch
          => LET req == inflight[1]
                 N == Len(annotations[req.analysis_id])
                 lim == IF req.limit = None THEN ListDefaultLimit ELSE req.limit[1]
             IN  /\ lim <= ListMaxLimit
                 /\ last'.total = Min(IF N > req.skip THEN N - req.skip ELSE 0, lim)
                 /\ (req.skip = 0 /\ N <= lim) => last'.total = N
       /\ (Handles({"annotations"}) /\ inflight[1].limit = Some(ListMaxLimit + 1))
          => last'.code = 422]_vars

\* a listing that named no limit answered 200 items for an analysis whose one
\* batch had 201
C16_Witness ==
    /\ last.op = "annotations"
    /\ last.code = 200
    /\ last.total = ListDefaultLimit
    /\ Len(annotations[last.id]) = AnnBulkCap

\* C17: whatever the mode, every annotation once stored for an analysis is
\* still stored and unmodified after every request: the stored sequence only
\* grows at its end
C17_AppendOnly ==
    [][\A id \in DOMAIN annotations :
          /\ id \in DOMAIN annotations'
          /\ Len(annotations'[id]) >= Len(annotations[id])
          /\ SubSeq(annotations'[id], 1, Len(annotations[id])) = annotations[id]]_vars

\* a bulk request in mode replace was accepted and the annotation stored
\* before it is still the first one
C17_Witness ==
    /\ inflight # None
    /\ inflight[1].op = "bulk"
    /\ inflight[1].payload.mode = "replace"
    /\ inflight[1].payload.annotations = <<"dog">>
    /\ last.op = "bulk"
    /\ last.code = 200
    /\ Len(annotations[last.id]) >= 2
    /\ annotations[last.id][1] = "cat"

----------------------------------------------------------------------------
(* Properties of creation and the per-image limit *)

\* the number of analyses stored for an image
CountFor(image_id) ==
    Cardinality({id \in DOMAIN analyses : analyses[id].image_id = image_id})

\* the number of analyses stored for an image after the step
CountAfter(image_id) ==
    Cardinality({id \in DOMAIN analyses' : analyses'[id].image_id = image_id})

\* the models of the configured allow-list
AllowListed == {"resnet50_classifier", "yolo_v8"}

\* the caller of a create request may use the image of its path
MayUseImage(req) == req.image_id \in Images /\ req.current_user \in GroupMembers

\* a create request that passes every check other than the limit
WellFormedCreate(req) ==
    /\ settings.ML_ANALYSIS_ENABLED
    /\ req.image_id = req.body_image_id
    /\ MayUseImage(req)
    /\ req.model_name \in AllowListed

\* C18: with creates handled one at a time, no image ever has more analyses
\* than the limit; a create with an allow-listed model is answered 201 and
\* stores one analysis while the image is below the limit, and is answered 400
\* and stores nothing once the image is at the limit
C18_LimitHolds ==
    [][/\ \A i \in Images : CountAfter(i) <= settings.ML_MAX_ANALYSES_PER_IMAGE
       /\ (Handles({"create"}) /\ WellFormedCreate(inflight[1]))
          => IF CountFor(inflight[1].image_id) < settings.ML_MAX_ANALYSES_PER_IMAGE
             THEN /\ last'.code = 201
                  /\ CountAfter(inflight[1].image_id)
                         = CountFor(inflight[1].image_id) + 1
             ELSE /\ last'.code = 400
                  /\ analyses' = analyses]_vars

\* the image holds as many analyses as the limit of two allows, and the create
\* after them was answered 400
C18_Witness ==
    /\ settings.ML_ANALYSIS_ENABLED
    /\ settings.ML_MAX_ANALYSES_PER_IMAGE = ML_MAX_ANALYSES_PER_IMAGE + 1
    /\ \E i \in Images : CountFor(i) = settings.ML_MAX_ANALYSES_PER_IMAGE
    /\ last.op = "create"
    /\ last.code = 400

\* C19: under concurrent creation the limit is best-effort.  An insert takes an
\* image above its limit only for a request that read a count below the limit
\* before another request inserted, and the image ends above the limit by at
\* most one analysis for each other request handled at the same time; the
\* interleaving that does so is C19_Witness.
C19_OverLimitOnlyByStaleRead ==
    [][/\ CountAfter("img1") <= settings.ML_MAX_ANALYSES_PER_IMAGE + (RaceClients - 1)
       /\ (/\ CountAfter("img1") > CountFor("img1")
           /\ CountAfter("img1") > settings.ML_MAX_ANALYSES_PER_IMAGE)
          => \E k \in DOMAIN inflight :
                /\ inflight' = Remove(inflight, k)
                /\ inflight[k].existing # None
                /\ inflight[k].existing[1] < settings.ML_MAX_ANALYSES_PER_IMAGE
                /\ inflight[k].existing[1] < CountFor("img1")]_vars

\* two creates were answered 201 on counts read below the limit and the image
\* has more analyses than the limit
C19_Witness ==
    /\ inflight = <<>>
    /\ last.op = "create"
    /\ last.code = 201
    /\ CountFor("img1") > settings.ML_MAX_ANALYSES_PER_IMAGE

\* C21: a create answered 201 stores one new analysis with status queued, null
\* started_at and completed_at and no annotations, and changes no other
\* analysis, whatever model, priority and parameters the request names
C21_CreatedQueued ==
    [][(Handles({"create"}) /\ last'.code = 201)
         => /\ last'.id \notin DOMAIN analyses
            /\ DOMAIN analyses' = DOMAIN analyses \cup {last'.id}
            /\ analyses'[last'.id].status = "queued"
            /\ analyses'[last'.id].started_at = None
            /\ analyses'[last'.id].completed_at = None
            /\ analyses'[last'.id].image_id = inflight[1].image_id
            /\ annotations'[last'.id] = <<>>
            /\ \A id \in DOMAIN analyses :
                  analyses'[id] = analyses[id] /\ annotations'[id] = annotations[id]]_vars

\* a second analysis was created for the image and both are queued, not started
\* and without annotations
C21_Witness ==
    /\ last.op = "create"
    /\ last.code = 201
    /\ Cardinality(DOMAIN analyses) = 2
    /\ \A id \in DOMAIN analyses :
          /\ analyses[id].status = "queued"
          /\ analyses[id].started_at = None
          /\ annotations[id] = <<>>

\* C20: a create that is not answered 201 leaves the stored analyses as they
\* were; a path/body mismatch is answered 400 when the feature is on, and a
\* reached limit or a model outside the allow-list is answered 400 when the
\* caller got as far as those checks
C20_FailedCreateStoresNothing ==
    [][Handles({"create"})
         => LET req == inflight[1]
            IN  /\ last'.code # 201 => (analyses' = analyses /\ annotations' = annotations)
                /\ ~settings.ML_ANALYSIS_ENABLED => last'.code = 404
                /\ (settings.ML_ANALYSIS_ENABLED /\ req.image_id # req.body_image_id)
                     => last'.code = 400
                /\ (/\ settings.ML_ANALYSIS_ENABLED
                    /\ req.image_id = req.body_image_id
                    /\ ~MayUseImage(req))
                     => last'.code \in {403, 404}
                /\ (/\ settings.ML_ANALYSIS_ENABLED
                    /\ req.image_id = req.body_image_id
                    /\ MayUseImage(req)
                    /\ \/ CountFor(req.image_id) >= settings.ML_MAX_ANALYSES_PER_IMAGE
                       \/ req.model_name \notin AllowListed)
                     => last'.code = 400]_vars

\* a create was answered 400 while the image was below its limit (a mismatch or
\* a model outside the allow-list), and nothing is stored
C20_Witness ==
    /\ settings.ML_ANALYSIS_ENABLED
    /\ last.op = "create"
    /\ last.code = 400
    /\ analyses = <<>>

----------------------------------------------------------------------------
(* Properties of the feature flag and of image access *)

\* the eight endpoints of the router
AllEndpoints ==
    {"create", "list", "get", "annotations", "patch", "finalize", "bulk", "presign"}

\* C22: while the feature flag is off every endpoint answers 404 and stores
\* nothing, whether or not the image or analysis exists, the caller has access
\* or the request is signed
C22_FeatureOffIs404 ==
    [][(Handles(AllEndpoints) /\ ~settings.ML_ANALYSIS_ENABLED)
         => /\ last'.code = 404
            /\ analyses' = analyses
            /\ annotations' = annotations]_vars

\* with the flag off, a finalize for an analysis that exists and is still
\* queued was answered 404
C22_Witness ==
    /\ ~settings.ML_ANALYSIS_ENABLED
    /\ last.op = "finalize"
    /\ last.code = 404
    /\ last.id \in DOMAIN analyses
    /\ analyses[last.id].status = "queued"

\* C23: a caller outside the project group of the image is never answered with
\* success and changes nothing, on any of the eight endpoints, signed or not
C23_NonMemberShutOut ==
    [][(Handles(AllEndpoints) /\ inflight[1].current_user \notin GroupMembers)
         => /\ last'.code >= 400
            /\ analyses' = analyses
            /\ annotations' = annotations]_vars

\* with the flag on, a bulk upload for an analysis that exists was refused
\* with 403
C23_Witness ==
    /\ settings.ML_ANALYSIS_ENABLED
    /\ last.op = "bulk"
    /\ last.code = 403
    /\ last.id \in DOMAIN analyses
    /\ annotations[last.id] = <<>>

----------------------------------------------------------------------------
(* Properties of finalize *)

\* C24: a validly signed finalize that names no status is answered 200 and
\* leaves the record of the analysis as it was, in every status and also when
\* it carries an error message
C24_FinalizeWithoutStatusReadsOnly ==
    [][(/\ Handles({"finalize"})
        /\ inflight[1].payload.status = None
        /\ Admitted(inflight[1])
        /\ ValidlySigned(inflight[1]))
         => /\ last'.code = 200
            /\ analyses' = analyses
            /\ annotations' = annotations]_vars

\* a finalize carrying an error message was answered 200 on an analysis in
\* processing, which is still in processing and has no error message
C24_Witness ==
    /\ last.op = "finalize"
    /\ last.code = 200
    /\ last.em
    /\ last.old = "processing"
    /\ analyses[last.id].status = "processing"
    /\ analyses[last.id].error_message = None

\* C25: once a finalize with terminal status s has succeeded the analysis has
\* status s; a validly signed finalize that names s again is answered 200 and
\* leaves the record, completed_at and started_at included, as it was
C25_FinalizeRetryIsNoOp ==
    [][(/\ Handles({"finalize"})
        /\ Admitted(inflight[1])
        /\ ValidlySigned(inflight[1])
        /\ Truthy(inflight[1].payload.status)
        /\ Lower(inflight[1].payload.status[1]) \in TerminalStatuses
        /\ analyses[inflight[1].analysis_id].status
             = Lower(inflight[1].payload.status[1]))
         => /\ last'.code = 200
            /\ analyses' = analyses
            /\ annotations' = annotations]_vars

\* a finalize was answered 200 on an analysis that failed at an earlier time;
\* completed_at is still that earlier time
C25_Witness ==
    /\ last.op = "finalize"
    /\ last.code = 200
    /\ last.old = "failed"
    /\ analyses[last.id].status = "failed"
    /\ analyses[last.id].completed_at # None
    /\ analyses[last.id].completed_at[1] < now

\* C30: a finalize that changes the status of an analysis leaves it completed,
\* failed or canceled, and a finalize that names queued or processing never
\* changes the stored status
C30_FinalizeOnlyTerminal ==
    [][Handles({"finalize"})
         => LET req == inflight[1]
                id == req.analysis_id
            IN  id \in DOMAIN analyses
                  => /\ analyses'[id].status # analyses[id].status
                          => analyses'[id].status \in TerminalStatuses
                     /\ (/\ Truthy(req.payload.status)
                         /\ Lower(req.payload.status[1]) \in {"queued", "processing"})
                          => analyses'[id].status = analyses[id].status]_vars

----------------------------------------------------------------------------
(* Properties of presign *)

\* the storage path the specification gives for an analysis, an artifact type
\* and an optional filename
StoragePath(analysis_id, artifact_type, filename) ==
    "ml_outputs/" \o analysis_id \o "/"
        \o (IF filename = None THEN artifact_type \o ".bin" ELSE filename[1])

\* the path a presign request is answered with
PathAnswered(req) ==
    presign_artifact_upload(req.analysis_id, req.payload, req.headers, req.body_bytes,
                            req.current_user).row

\* C27: the path a presign returns is ml_outputs/{analysis_id}/{filename}, or
\* ml_outputs/{analysis_id}/{artifact_type}.bin without a filename, at every
\* time and in every status of the analysis, so it is a function of the three
\* inputs; and no other analysis gets that path for any type and filename
C27_PathIsDeterministic ==
    [][(Handles({"presign"}) /\ last'.code = 200)
         => /\ PathAnswered(inflight[1])
                 = Some(StoragePath(inflight[1].analysis_id,
                                    inflight[1].payload.artifact_type,
                                    inflight[1].payload.filename))
            /\ \A other \in GuardTargets \ {inflight[1].analysis_id},
                  ty \in {"heatmap", "mask"}, f \in {None, Some("heat.png")} :
                  PathAnswered(inflight[1]) # Some(StoragePath(other, ty, f))]_vars

\* a presign for the second analysis of the image, already completed, was
\* answered 200 after the clock had advanced
C27_Witness ==
    /\ last.op = "presign"
    /\ last.code = 200
    /\ last.id = "a2"
    /\ last.old = "completed"
    /\ now > 1

----------------------------------------------------------------------------
(* Properties of the listings *)

\* C29 (for the listing of annotations; the listing of analyses computes its
\* total the same way): the total of a list-annotations response is the number
\* of annotations stored for the analysis, for every skip and limit
C29_TotalIsStoredCount ==
    [][(Handles({"annotations"}) /\ last'.code = 200)
         => last'.total = Len(annotations[inflight[1].analysis_id])]_vars

----------------------------------------------------------------------------
(* Properties of concurrent status changes *)

\* the requests answered with success so far
Succeeded == {k \in DOMAIN inflight : inflight[k].pc = "done" /\ inflight[k].code = 200}

\* the orders in which the requests of a set can be handled one after another
Orders(S) ==
    {o \in [1..Cardinality(S) -> S] : \A i, j \in 1..Cardinality(S) : o[i] = o[j] => i = j}

\* the record after the requests o[i], ..., o[n] are handled one at a time
\* starting from `row`, each loading the record the one before left; None when
\* one of them is refused
RECURSIVE Serially(_, _, _)
Serially(row, o, i) ==
    IF i > Len(o) THEN Some(row)
    ELSE LET r == StatusDecision(row, inflight[o[i]])
         IN  IF r.code # 200 THEN None
             ELSE Serially(IF r.row = None THEN row ELSE Commit(row, r.row[1]), o, i + 1)

\* C26: the stored record is what the requests answered with success so far
\* leave when they are handled one at a time, in some order in which the
\* transition rules allow each of them
C26_NoTransitionLost ==
    \E o \in Orders(Succeeded) :
        Serially(NewAnalysis("img1", ML_DEFAULT_STATUS), o, 1) = Some(analyses["a1"])

\* C28: a terminal status, once stored, is not replaced by another status, and
\* completed_at is non-null only while the status is terminal
C28_TerminalSurvivesRaces ==
    [][/\ analyses["a1"].status \in TerminalStatuses
            => analyses'["a1"].status = analyses["a1"].status
       /\ analyses'["a1"].completed_at # None
            => analyses'["a1"].status \in TerminalStatuses]_vars

----------------------------------------------------------------------------
(* The audit log *)

\* C31: every accepted status change, through status-update or through
\* finalize, appends exactly one log record, which carries the analysis id, the
\* status before, the status after (the one the store holds when the record is
\* written) and the acting user; a request that changes no status (an echo, a
\* rejected transition, a finalize without status, a request turned away)
\* appends none
C31_OneAuditRecordPerChange ==
    [][Handles({"patch", "finalize"}) =>
          LET req == inflight[1]
              id == req.analysis_id
          IN  IF id \in DOMAIN analyses /\ analyses'[id].status # analyses[id].status
              THEN log' = Append(log, [analysis_id |-> id,
                                       from |-> analyses[id].status,
                                       to |-> analyses'[id].status,
                                       user |-> req.current_user])
              ELSE log' = log]_vars

\* a finalize took the analysis from queued to completed and the log holds its
\* one record
C31_Witness ==
    /\ last.op = "finalize"
    /\ last.code = 200
    /\ last.old = "queued"
    /\ Len(log) = 1
    /\ log[1].to = "completed"
    /\ log[1].user = "alice@example.com"

----------------------------------------------------------------------------
(* Which endpoints write what *)

\* the lifecycle attributes of every analysis are what they were
LifecycleUnchanged ==
    /\ DOMAIN analyses' = DOMAIN analyses
    /\ \A id \in DOMAIN analyses :
          /\ analyses'[id].status = analyses[id].status
          /\ analyses'[id].started_at = analyses[id].started_at
          /\ analyses'[id].completed_at = analyses[id].completed_at
          /\ analyses'[id].error_message = analyses[id].error_message

\* C32: only create, status-update and finalize with a status write analysis
\* records; list analyses, get analysis, list annotations, presign and
\* bulk-annotate leave status, started_at, completed_at and error_message of
\* every analysis unchanged, and presign leaves every annotation unchanged too
C32_ReadersAndPipelineWritesLeaveLifecycle ==
    [][/\ Handles({"list", "get", "annotations", "presign", "bulk"}) => LifecycleUnchanged
       /\ Handles({"presign"}) => annotations' = annotations
       /\ analyses' # analyses =>
             /\ Handles({"create", "patch", "finalize"})
             /\ inflight[1].op = "finalize" => Truthy(inflight[1].payload.status)]_vars

\* a bulk upload was accepted for an analysis that is still queued and has never
\* started: its annotations are stored, its lifecycle attributes untouched
C32_Witness ==
    /\ last.op = "bulk"
    /\ last.code = 200
    /\ annotations[last.id] # <<>>
    /\ analyses[last.id].status = "queued"
    /\ analyses[last.id].started_at = None

\* C33: the outcome of a bulk-annotate or presign request does not depend on
\* the status of the analysis: whatever that status is, a validly signed request
\* (a bulk upload within the size cap) from a caller with access is answered
\* 200, and the batch of a bulk upload is appended to the stored annotations
C33_AcceptedInEveryStatus ==
    [][(/\ Handles({"bulk", "presign"})
        /\ Admitted(inflight[1])
        /\ ValidlySigned(inflight[1])
        /\ inflight[1].op = "bulk" =>
              Len(inflight[1].payload.annotations) <= settings.ML_MAX_BULK_ANNOTATIONS)
         => LET req == inflight[1]
            IN  /\ last'.code = 200
                /\ req.op = "bulk" =>
                      annotations'[req.analysis_id]
                          = annotations[req.analysis_id] \o req.payload.annotations]_vars

\* an annotation was appended to an analysis that had already failed
C33_Witness ==
    /\ last.op = "bulk"
    /\ last.code = 200
    /\ last.old = "failed"
    /\ analyses[last.id].status = "failed"
    /\ Len(annotations[last.id]) > 0

----------------------------------------------------------------------------
(* What the signature covers *)

\* C34: whether a pipeline write passes signature verification depends only on
\* the secret, the timestamp header, the body and the server's time: on each of
\* the three endpoints a request that reaches the verifier is turned away with
\* 401 exactly when it is not validly signed, and the same body and headers sent
\* to any other analysis get the same verdict
C34_SignatureBlindToTarget ==
    [][(/\ Delivers(PipelineWrites)
        /\ Admitted(inflight[1])
        /\ EnforcementOn
        /\ ReachesVerifier(inflight[1]))
         => LET req == inflight[1]
            IN  /\ last'.code # 401 <=> ValidlySigned(req)
                /\ last'.code = 401 <=> verify_pipeline_hmac(req.headers, req.body_bytes) = 401
                /\ \A a \in DOMAIN analyses :
                       Admitted([req EXCEPT !.analysis_id = a])
                         => (Outcome([req EXCEPT !.analysis_id = a]).code = 401
                               <=> last'.code = 401)]_vars

\* the batch the pipeline signed for the first analysis was accepted there and,
\* sent again with the same headers, on the second analysis as well
C34_Witness ==
    /\ now = 1
    /\ inflight # None
    /\ inflight[1].op = "bulk"
    /\ inflight[1].analysis_id = Uuids[2]
    /\ inflight[1].payload.annotations # <<>>
    /\ ValidlySigned(inflight[1])
    /\ last.op = "bulk"
    /\ last.id = Uuids[2]
    /\ last.code = 200
    /\ annotations[Uuids[1]] = inflight[1].payload.annotations
    /\ annotations[Uuids[2]] = inflight[1].payload.annotations

\* C35: the status update never verifies a signature: with enforcement on, its
\* response and its effect on the record are what the handler computes from the
\* path, the payload and the caller alone, whatever the signature and timestamp
\* headers are; it is never answered 401 or 500, and a caller with access who
\* sends no valid signature moves an analysis along the whole transition table
C35_PatchIgnoresSignature ==
    [][(Handles({"patch"}) /\ EnforcementOn)
         => LET req == inflight[1]
                r == update_ml_analysis_status(
                         req.analysis_id,
                         [status |-> req.status, error_message |-> req.error_message],
                         req.current_user)
            IN  /\ ~ValidlySigned(req)
                /\ last'.code = r.code
                /\ last'.code \notin {401, 500}
                /\ analyses' = IF r.row = None THEN analyses
                               ELSE [analyses EXCEPT ![req.analysis_id] = r.row[1]]
                /\ (/\ Admitted(req)
                    /\ Lower(req.status) \in TransitionTable(analyses[req.analysis_id].status))
                     => analyses'[req.analysis_id].status = Lower(req.status)]_vars

\* callers without the secret have driven the analysis to completed
C35_Witness ==
    /\ EnforcementOn
    /\ last.op = "patch"
    /\ last.code = 200
    /\ last.old = "processing"
    /\ analyses[last.id].status = "completed"

----------------------------------------------------------------------------
(* The stored status and the timestamps *)

\* the status a status update or a finalize asks for, None when it names none
AskedStatus(req) ==
    IF req.op = "patch" THEN Some(req.status) ELSE req.payload.status

\* C36: in every reachable state the stored status of every analysis is one of
\* queued, processing, completed, failed, canceled in lower case: a change of
\* status stores the lower-cased requested status, and a request whose status,
\* lower-cased, is none of the five (or that names none) changes no record
C36_StoredStatusIsLowerCase ==
    [][/\ \A id \in DOMAIN analyses' : analyses'[id].status \in Statuses
       /\ Handles({"patch", "finalize"}) =>
             LET req == inflight[1]
                 id == req.analysis_id
                 asked == AskedStatus(req)
             IN  /\ (asked = None \/ Lower(asked[1]) \notin Statuses)
                      => analyses' = analyses
                 /\ (id \in DOMAIN analyses /\ analyses'[id].status # analyses[id].status)
                      => /\ asked # None
                         /\ analyses'[id].status = Lower(asked[1])]_vars

\* clients that spell every status with capital letters have taken the analysis
\* from processing to a stored status of completed
C36_Witness ==
    /\ last.op \in {"patch", "finalize"}
    /\ last.code = 200
    /\ last.old = "processing"
    /\ analyses[last.id].status = "completed"

\* C37: with requests handled one at a time, started_at and completed_at are
\* each written at most once per analysis: once one of them is non-null no later
\* request changes it
C37_TimestampsWrittenOnce ==
    [][\A id \in DOMAIN analyses :
          /\ analyses[id].started_at # None
               => analyses'[id].started_at = analyses[id].started_at
          /\ analyses[id].completed_at # None
               => analyses'[id].completed_at = analyses[id].completed_at]_vars

\* the analysis started at one time and finished at a later one, and a request
\* after that was answered 200: both timestamps are as they were first written
C37_Witness ==
    /\ last.op \in {"patch", "finalize"}
    /\ last.code = 200
    /\ last.old \in TerminalStatuses
    /\ analyses[last.id].started_at = Some(1)
    /\ analyses[last.id].completed_at = Some(2)

\* C38: with a clock that never runs backwards and requests handled one at a
\* time, an analysis whose started_at and completed_at are both non-null has
\* started_at no later than completed_at; after a finalize on the fast path
\* (queued to completed or failed in one step) the two are equal
C38_StartedNotAfterCompleted ==
    [][/\ \A id \in DOMAIN analyses' :
             (analyses'[id].started_at # None /\ analyses'[id].completed_at # None)
               => analyses'[id].started_at[1] <= analyses'[id].completed_at[1]
       /\ (/\ Handles({"finalize"})
           /\ inflight[1].analysis_id \in DOMAIN analyses
           /\ analyses[inflight[1].analysis_id].status = "queued"
           /\ analyses'[inflight[1].analysis_id].status \in {"completed", "failed"})
            => /\ analyses'[inflight[1].analysis_id].started_at = Some(now)
               /\ analyses'[inflight[1].analysis_id].completed_at = Some(now)]_vars

\* after the clock advanced, a queued analysis was finalized in one step:
\* started_at and completed_at are both the time of that request
C38_Witness ==
    /\ last.op = "finalize"
    /\ last.code = 200
    /\ last.old = "queued"
    /\ now > 1
    /\ analyses[last.id].status \in {"completed", "failed"}
    /\ analyses[last.id].started_at = Some(now)
    /\ analyses[last.id].completed_at = Some(now)

----------------------------------------------------------------------------
(* The bytes the signature is verified over *)

\* C39: the signature of a bulk-annotate, presign or finalize request is
\* verified over the body bytes as they were received: of the layouts a payload
\* can be sent in, a request is accepted only with the signature computed over
\* the layout it carries, and is answered 401, with nothing written, when its
\* signature is the one of another layout of the same payload
C39_SignatureOverReceivedBytes ==
    [][(/\ Delivers(PipelineWrites)
        /\ Admitted(inflight[1])
        /\ EnforcementOn
        /\ ReachesVerifier(inflight[1])
        /\ InWindow(inflight[1]))
         => LET req == inflight[1]
            IN  \A pad \in Layouts :
                   req.headers.sig
                       = Some(Sign(ConfiguredSecret, req.headers.ts[1],
                                   Rendering(req.op, req.payload, pad)))
                     => IF Rendering(req.op, req.payload, pad) = req.body_bytes
                        THEN last'.code # 401
                        ELSE /\ last'.code = 401
                             /\ analyses' = analyses
                             /\ annotations' = annotations]_vars

\* a finalize whose body has blanks after the separators, signed over the
\* layout without blanks of the same payload, was answered 401
C39_Witness ==
    /\ inflight # None
    /\ inflight[1].op = "finalize"
    /\ inflight[1].body_bytes = Rendering("finalize", inflight[1].payload, " ")
    /\ inflight[1].headers.sig
         = Some(Sign(ConfiguredSecret, Str(now), Rendering("finalize", inflight[1].payload, "")))
    /\ inflight[1].body_bytes # Rendering("finalize", inflight[1].payload, "")
    /\ last.op = "finalize"
    /\ last.code = 401
    /\ analyses[last.id].status = "queued"

====
